---- MODULE Spec2Model ----
(***************************************************************************)
(* Model of the goose-deterrence control loop of SystemMain.py: the        *)
(* SEARCH/TRACK state machine, the human safety override, the keyboard     *)
(* contract, the deterrence pattern ownership rule and the cleanup block.  *)
(* One iteration of `while state.running` is one step of the model; the    *)
(* body is threaded through a record so that an exception raised by a      *)
(* send skips the statements that follow it, as in the source.             *)
(*                                                                         *)
(* Units: confidences in percent, distances in tenths of a foot, tracking  *)
(* steps in 1e-4 mm, times in half seconds, search positions in mm.        *)
(***************************************************************************)
EXTENDS Integers, Sequences, FiniteSets, TLC

\* ------------------------------------------------------------------------
\* Bounds of the model (not program constants)
\* ------------------------------------------------------------------------
MaxBudget == 3      \* a tick's sends succeed up to this count before a drop
MaxDrift == 200     \* relative Z steps sent since the last absolute Z sum to this at most
MaxRequests == 2    \* request ids the client allocates
MaxWrites == 3      \* frames the vision worker writes
MaxClock == 8       \* the vision clock stops here
MaxPoints == 3      \* points of a calibration
MaxClicks == 6      \* points clicked in a calibration session
MaxTime == 8        \* the clock of the concurrent updates stops here
MaxRuns == 4        \* detector runs, and reads, of the queued vision worker
MaxUpdates == 2     \* sweep updates counted since the start

\* ------------------------------------------------------------------------
\* Program constants
\* ------------------------------------------------------------------------
BIRD_CLASS == 14
PERSON_CLASS == 0
CONF_THRESH_BIRD == 25
TRACK_CONFIRM_FRAMES == 5
LOST_FRAMES_TO_EXIT == 60
MIN_DISTANCE_FT == 30
MAX_DISTANCE_FT == 300
SQUARE_SIZE_FT == 10
MOTOR_CMD_INTERVAL == 2
PATTERN_RESTART_DEBOUNCE == 3
CAMERA_WIDTH == 1080
TARGET_LOST_THRESHOLD == 5
\* Axis geometry of the motion controller, in tenths of a millimetre
X_MIN == 0
X_MAX == 2070
Y_MIN == 0
Y_MAX == 1368
Z_MIN == 0
Z_MAX == 200
Z_NEUTRAL == 100
MM_PER_TURN == 80
DEADBAND_Z == 0
\* VisionSystemConfig.staleness_threshold_s, in quarters of a second
STALENESS_THRESHOLD_S == 2
\* Config/Seach_Config.py and the defaults of Search_v2.SearchConfig
SEARCH_MIN_ANGLE == 0
SEARCH_MAX_ANGLE == 9000
SEARCH_START_ANGLE == 4500
SEARCH_ANGULAR_VELOCITY == 10
SEARCH_MAX_ANGULAR_VELOCITY == 10
SEARCH_MAX_DT == 10

\* SEARCH_CONFIG of SystemMain.py
SEARCH_CONFIG == [min_z |-> 0, max_z |-> 20, start_z |-> 10,
                  step_size |-> 1, initial_direction |-> 1]

\* TRACKING_CONFIG of SystemMain.py
TRACKING_CONFIG == [frame_width |-> CAMERA_WIDTH, deadzone_px |-> 50,
                    kp |-> 20, max_step_mm |-> 15000, min_step_mm |-> 500,
                    confidence_threshold |-> 25]

\* The field defaults of the TrackingConfig dataclass, on the same camera
DEFAULT_TRACKING_CONFIG == [frame_width |-> CAMERA_WIDTH, deadzone_px |-> 30,
                    kp |-> 30, max_step_mm |-> 30000, min_step_mm |-> 500,
                    confidence_threshold |-> 70]

\* A tracker whose gain maps the deadzone edge below the minimum step
LOW_GAIN_TRACKING_CONFIG == [frame_width |-> CAMERA_WIDTH, deadzone_px |-> 50,
                    kp |-> 5, max_step_mm |-> 15000, min_step_mm |-> 500,
                    confidence_threshold |-> 25]

TrackerConfigs == {TRACKING_CONFIG, DEFAULT_TRACKING_CONFIG, LOW_GAIN_TRACKING_CONFIG}

\* A calibration as load_model stores it for get_distance: sorted by row
CalPoints == << [y |-> 100, d |-> 400], [y |-> 200, d |-> 300],
                [y |-> 300, d |-> 200], [y |-> 500, d |-> 100],
                [y |-> 600, d |-> 60],  [y |-> 700, d |-> 20] >>

\* ------------------------------------------------------------------------
\* Inputs of one loop iteration
\* ------------------------------------------------------------------------
NoDetection == [has_target |-> FALSE, class_id |-> -1, conf |-> 0, cx |-> 0, y2 |-> 0]

Detections ==
    {NoDetection}
    \cup {[has_target |-> TRUE, class_id |-> PERSON_CLASS, conf |-> 80, cx |-> 540, y2 |-> 600]}
    \cup {[has_target |-> TRUE, class_id |-> BIRD_CLASS, conf |-> 20, cx |-> 540, y2 |-> 600]}
    \cup {[has_target |-> TRUE, class_id |-> BIRD_CLASS, conf |-> 50, cx |-> x, y2 |-> y] :
              x \in {540, 595}, y \in {600, 700}}
    \cup {[has_target |-> TRUE, class_id |-> BIRD_CLASS, conf |-> 80, cx |-> 595, y2 |-> 600]}

Keys == {"none", "q", "p", "r"}

NoAim == [offset_px |-> 0, distance_ft |-> 0]

\* Whether the pattern runs on the controller after the commands of log
RECURSIVE GridAfter(_, _)
GridAfter(g, log) ==
    IF log = << >> THEN g
    ELSE GridAfter(IF Head(log) = "GRID_START" THEN TRUE
                   ELSE IF Head(log) = "GRID_STOP" THEN FALSE ELSE g, Tail(log))

VARIABLES
    pc,                    \* "home", "neutral", "prepare", "loop", "cleanup", "done"
    init_log,              \* how the blocking calls of initialisation returned
    laser_controller,      \* laser_controller is not None
    mode, running, paused, \* SystemState
    track_confirm_count, lost_frame_count,
    pattern_active, laser_active,
    pattern_elapsed,       \* time.time() - state.last_pattern_start_time, saturated
    motor_elapsed,         \* time.time() - last_motor_cmd_time, saturated
    search_z, search_dir,  \* SearchController
    frames_without_target, \* TrackingController
    cfg,                   \* the TrackingConfig the tracker was built with
    ws_open,               \* MoonrakerWSClient._ws is not None
    off_failed,            \* the most recent laser command was a failed turn_off
    det,                   \* what the last iteration saw: "person", "bird" (valid) or "None"
    aimed,                 \* offset from the frame centre and get_distance of the bird
                           \* the last step ran the tracker on, else NoAim
    grid_running,          \* the controller got GRID_START and no GRID_STOP since
    preempted,             \* a person has stopped a running pattern at some time
    exc,                   \* the exception that ended the last iteration, or "none"
    failed,                \* the command whose send raised it, or "none"
    sent,                  \* commands issued by the last step, in order
    trans,                 \* what the last step did to the mode
    branch,                \* which part of the program the last step ended in
    bird_run,              \* consecutive frames with a valid bird that reached SEARCH
    lost_run,              \* consecutive frames without a valid bird that reached TRACK
    human_hold,            \* a person was seen and no later frame was fully processed
    mc,                    \* the MotionController and what it put on the wire
    rpc,                   \* the MoonrakerWSClient, its threads and its waiters
    comp                   \* the other components, each followed on its own

vars == << pc, mode, running, paused, track_confirm_count, lost_frame_count,
           pattern_active, laser_active, pattern_elapsed, motor_elapsed,
           search_z, search_dir, frames_without_target, cfg, ws_open,
           off_failed, det, aimed, exc, sent, trans, branch, bird_run, lost_run,
           human_hold, grid_running, preempted, failed, init_log,
           laser_controller, mc, rpc, comp >>

\* The variables of main and of its loop
main_vars == << pc, mode, running, paused, track_confirm_count, lost_frame_count,
                pattern_active, laser_active, pattern_elapsed, motor_elapsed,
                search_z, search_dir, frames_without_target, cfg, ws_open,
                off_failed, det, aimed, exc, sent, trans, branch, bird_run, lost_run,
                human_hold, grid_running, preempted, failed, init_log,
                laser_controller >>

\* What the main loop and the cleanup never assign: the loop streams its
\* moves through ws_client.send_gcode and never calls the motion controller;
\* the threads of the transport are followed on their own in SpecClient
loop_fixed == << init_log, laser_controller, mc, rpc, comp >>

Abs(x) == IF x < 0 THEN -x ELSE x
Min(a, b) == IF a < b THEN a ELSE b
Max(a, b) == IF a > b THEN a ELSE b


\* ------------------------------------------------------------------------
\* Pure helpers
\* ------------------------------------------------------------------------

\* Distance.Model.get_distance: np.interp over the calibration sorted by row;
\* constant beyond both ends, linear between neighbouring points.
RECURSIVE Interp(_, _, _)
Interp(y, pts, i) ==
    IF y <= pts[1].y THEN pts[1].d
    ELSE IF y >= pts[Len(pts)].y THEN pts[Len(pts)].d
    ELSE IF y <= pts[i + 1].y
         THEN pts[i].d + ((pts[i + 1].d - pts[i].d) * (y - pts[i].y)) \div (pts[i + 1].y - pts[i].y)
         ELSE Interp(y, pts, i + 1)

get_distance(y) == Interp(y, CalPoints, 1)

\* The class name the loop derives from the detector's class id.
detected_class(d) ==
    IF d.has_target /\ d.class_id = PERSON_CLASS THEN "person"
    ELSE IF d.has_target /\ d.class_id = BIRD_CLASS THEN "bird"
    ELSE "None"

\* The loop's test for a valid bird target.
ValidBird(d) ==
    d.has_target /\ detected_class(d) = "bird" /\ d.conf >= CONF_THRESH_BIRD

TrackerUpdate_NoDeadzone(c, frames, has_center, cx, conf) ==
    IF ~has_center \/ conf < c.confidence_threshold
    THEN [should_move |-> FALSE, z_delta |-> 0, error_px |-> 0,
          target_locked |-> FALSE, frames |-> frames + 1]
    ELSE LET error_px == cx - (c.frame_width \div 2)
             z_delta == Max(-c.max_step_mm, Min(c.max_step_mm, c.kp * error_px))
         IN  IF Abs(z_delta) < c.min_step_mm
             THEN [should_move |-> FALSE, z_delta |-> 0, error_px |-> error_px,
                   target_locked |-> TRUE, frames |-> 0]
             ELSE [should_move |-> TRUE, z_delta |-> z_delta, error_px |-> error_px,
                   target_locked |-> TRUE, frames |-> 0]

\* (the variant leaves the lost counter alone on a valid detection)
TrackerUpdate_KeepsCount(c, frames, has_center, cx, conf) ==
    IF ~has_center \/ conf < c.confidence_threshold
    THEN [should_move |-> FALSE, z_delta |-> 0, error_px |-> 0,
          target_locked |-> FALSE, frames |-> frames + 1]
    ELSE [TrackerUpdate_NoDeadzone(c, frames, has_center, cx, conf)
             EXCEPT !.frames = frames]

\* TrackingController.update: the result dict plus the new lost counter.
TrackerUpdate(c, frames, has_center, cx, conf) ==
    IF ~has_center \/ conf < c.confidence_threshold
    THEN [should_move |-> FALSE, z_delta |-> 0, error_px |-> 0,
          target_locked |-> FALSE, frames |-> frames + 1]
    ELSE LET error_px == cx - (c.frame_width \div 2)
             raw == c.kp * error_px
             z_delta == Max(-c.max_step_mm, Min(c.max_step_mm, raw))
         IN  IF Abs(error_px) < c.deadzone_px
             THEN [should_move |-> FALSE, z_delta |-> 0, error_px |-> error_px,
                   target_locked |-> TRUE, frames |-> 0]
             ELSE IF Abs(z_delta) < c.min_step_mm
             THEN [should_move |-> FALSE, z_delta |-> 0, error_px |-> error_px,
                   target_locked |-> TRUE, frames |-> 0]
             ELSE [should_move |-> TRUE, z_delta |-> z_delta, error_px |-> error_px,
                   target_locked |-> TRUE, frames |-> 0]

\* SearchController.update as SystemMain.py calls it (result key "z_delta").
SearchUpdate(z, dir) ==
    LET proposed == z + dir * SEARCH_CONFIG.step_size
    IN  IF proposed >= SEARCH_CONFIG.max_z
        THEN [z |-> SEARCH_CONFIG.max_z, dir |-> -1, z_delta |-> SEARCH_CONFIG.max_z - z]
        ELSE IF proposed <= SEARCH_CONFIG.min_z
        THEN [z |-> SEARCH_CONFIG.min_z, dir |-> 1, z_delta |-> SEARCH_CONFIG.min_z - z]
        ELSE [z |-> proposed, dir |-> dir, z_delta |-> proposed - z]

\* get_motor_deltas_for_ground_hit raises ValueError iff z_m <= 0
\* (z_m = distance_ft * 0.3048).
GroundAimRaises(distance) == distance <= 0

\* compute_square_corners + solve_ground_hit: the near corners lie half a
\* square side before the centre; ValueError iff that z is <= 0.
CornersRaise(distance) == 2 * distance - SQUARE_SIZE_FT <= 0

\* ------------------------------------------------------------------------
\* Effects, threaded through the record s of one loop iteration.
\*   s.exc    the exception that is propagating ("none" when none)
\*   s.budget how many more sends the transport accepts in this iteration
\* ------------------------------------------------------------------------

\* MoonrakerWSClient.send_gcode: RuntimeError when the socket is gone.
send_gcode(s, gcode) ==
    IF s.exc # "none" THEN s
    ELSE IF s.budget = 0 \/ ~s.ws_open
         THEN [s EXCEPT !.exc = "RuntimeError", !.ws_open = FALSE, !.failed = gcode]
         ELSE [s EXCEPT !.sent = Append(@, gcode), !.budget = @ - 1]

\* LaserController.turn_off: never raises, False when the endpoint fails.
turn_off(s) ==
    IF s.exc # "none" THEN s
    ELSE [s EXCEPT !.sent = Append(@, "LASER_OFF"), !.off_failed = ~s.laser_ok]

\* LaserController.turn_on: never raises, False when the endpoint fails.
turn_on(s) ==
    IF s.exc # "none" THEN s
    ELSE [s EXCEPT !.sent = Append(@, "LASER_ON"), !.off_failed = FALSE]

IsGcode(c) == c \notin {"LASER_ON", "LASER_OFF", "WS_CLOSE"}

\* DeterrencePattern.stop_pattern
stop_pattern(s) == send_gcode(s, "GRID_STOP")

\* DeterrencePattern.start_square_pattern
start_square_pattern(s, distance) ==
    IF s.exc # "none" THEN s
    ELSE IF CornersRaise(distance) THEN [s EXCEPT !.exc = "ValueError"]
    ELSE send_gcode(send_gcode(s, "GRID_DEFINE"), "GRID_START")

\* The statements that follow a call run only when it did not raise
Ok(s) == s.exc = "none"

PatternStopped(s) == IF Ok(s) THEN [s EXCEPT !.pattern_active = FALSE] ELSE s

\* `if state.pattern_active: stop_pattern(ws_client); state.pattern_active = False`
\* (the variant clears the flag without sending the stop)
StopPatternIfActive_Silent(s) ==
    IF ~Ok(s) \/ ~s.pattern_active THEN s ELSE PatternStopped(s)

StopPatternIfActive(s) ==
    IF ~Ok(s) \/ ~s.pattern_active THEN s
    ELSE PatternStopped(stop_pattern(s))

\* `if state.laser_active: laser_controller.turn_off(); state.laser_active = False`
LaserOffIfActive(s) ==
    IF ~Ok(s) \/ ~s.laser_active THEN s
    ELSE [turn_off(s) EXCEPT !.laser_active = FALSE]

\* ------------------------------------------------------------------------
\* The body of the main loop
\* ------------------------------------------------------------------------

\* Force SEARCH if tracking and reset the bird counters
\* (the variant resets the counters and leaves the mode alone)
HumanReset_KeepsMode(s) ==
    IF ~Ok(s) THEN s
    ELSE [s EXCEPT !.track_confirm_count = 0, !.lost_frame_count = 0]

HumanReset(s) ==
    IF ~Ok(s) THEN s
    ELSE [s EXCEPT !.mode = "SEARCH",
                   !.trans = IF s.mode = "TRACK" THEN "human" ELSE @,
                   !.track_confirm_count = 0,
                   !.lost_frame_count = 0]

\* SAFETY: HUMAN DETECTED (stop laser and pattern, force SEARCH, reset counters)
\* (the variant stops the pattern and leaves the laser alone)
HumanSafety_KeepsLaser(s, d) ==
    IF detected_class(d) # "person" THEN s
    ELSE HumanReset(StopPatternIfActive(s))

HumanSafety(s, d) ==
    IF detected_class(d) # "person" THEN s
    ELSE HumanReset(LaserOffIfActive(StopPatternIfActive(s)))

\* P: pause once, stopping the pattern and the laser
KeyPause(s) ==
    IF s.paused THEN s
    ELSE LaserOffIfActive(StopPatternIfActive([s EXCEPT !.paused = TRUE]))

\* R: resume into SEARCH with both counters cleared
\* (the variant resumes without clearing the counters)
KeyResume_KeepsCounters(s) ==
    IF ~s.paused THEN s
    ELSE [s EXCEPT !.paused = FALSE, !.mode = "SEARCH", !.trans = "resume"]

KeyResume(s) ==
    IF ~s.paused THEN s
    ELSE [s EXCEPT !.paused = FALSE, !.mode = "SEARCH", !.trans = "resume",
                   !.track_confirm_count = 0, !.lost_frame_count = 0]

\* `if state.paused: ... continue`
SkipIfPaused(s) ==
    IF Ok(s) /\ s.paused THEN [s EXCEPT !.skip = TRUE, !.branch = "paused"] ELSE s

\* KEYBOARD INPUT: Q quits, P pauses, R resumes; a paused loop skips the rest
KeyInput(s, k) ==
    IF ~Ok(s) THEN s
    ELSE IF k = "q" THEN [s EXCEPT !.running = FALSE, !.skip = TRUE, !.branch = "quit"]
    ELSE IF k = "p" THEN SkipIfPaused(KeyPause(s))
    ELSE IF k = "r" THEN SkipIfPaused(KeyResume(s))
    ELSE SkipIfPaused(s)

MotorSent(s) == IF Ok(s) THEN [s EXCEPT !.motor_elapsed = 0] ELSE s

\* The sweep step: advance the search controller, send a meaningful delta
SweepStep(s, r) ==
    IF 100 * Abs(r.z_delta) > 1
    THEN MotorSent(send_gcode([s EXCEPT !.search_z = r.z, !.search_dir = r.dir], "Z_SEARCH"))
    ELSE [s EXCEPT !.search_z = r.z, !.search_dir = r.dir]

\* The rate-limited sweep of SEARCH mode
SearchSweep(s) ==
    IF ~Ok(s) \/ s.motor_elapsed < MOTOR_CMD_INTERVAL THEN s
    ELSE SweepStep(s, SearchUpdate(s.search_z, s.search_dir))

\* The assignments of SEARCH -> TRACK, with tracker.reset() and search.reset()
TrackEntered(s) ==
    IF ~Ok(s) THEN s
    ELSE [s EXCEPT !.mode = "TRACK", !.trans = "confirm",
                   !.track_confirm_count = 0,
                   !.lost_frame_count = 0,
                   !.frames_without_target = 0,
                   !.search_z = SEARCH_CONFIG.start_z,
                   !.search_dir = SEARCH_CONFIG.initial_direction]

\* SEARCH -> TRACK once the bird is confirmed: drain the moves with M400 first
EnterTrack(s) == TrackEntered(send_gcode(s, "M400"))

\* The threshold test of the confirmation counter
\* (the variant enters one frame early)
ConfirmThreshold_Early(s) ==
    IF s.track_confirm_count >= TRACK_CONFIRM_FRAMES - 1 THEN EnterTrack(s) ELSE s

ConfirmThreshold(s) ==
    IF s.track_confirm_count >= TRACK_CONFIRM_FRAMES THEN EnterTrack(s) ELSE s

\* The bird confirmation counter of SEARCH mode
SearchConfirm(s, d) ==
    IF ~Ok(s) THEN s
    ELSE IF ValidBird(d)
    THEN ConfirmThreshold([s EXCEPT !.track_confirm_count = @ + 1])
    ELSE [s EXCEPT !.track_confirm_count = 0]

\* STATE MACHINE: SEARCH MODE
\* (the variant turns the laser off whether or not the flag is set)
SearchMode_AlwaysOff(s, d) ==
    SearchConfirm(SearchSweep(
        turn_off(StopPatternIfActive([s EXCEPT !.branch = "search"]))), d)

SearchMode(s, d) ==
    SearchConfirm(SearchSweep(
        LaserOffIfActive(StopPatternIfActive([s EXCEPT !.branch = "search"]))), d)

\* TRACK -> SEARCH after enough lost frames
\* (the variant stops the pattern and leaves the laser on)
LostThreshold_KeepsLaser(s) ==
    IF s.lost_frame_count >= LOST_FRAMES_TO_EXIT
    THEN StopPatternIfActive(
             [s EXCEPT !.mode = "SEARCH", !.trans = "lost",
                       !.lost_frame_count = 0,
                       !.track_confirm_count = 0])
    ELSE s

LostThreshold(s) ==
    IF s.lost_frame_count >= LOST_FRAMES_TO_EXIT
    THEN LaserOffIfActive(StopPatternIfActive(
             [s EXCEPT !.mode = "SEARCH", !.trans = "lost",
                       !.lost_frame_count = 0,
                       !.track_confirm_count = 0]))
    ELSE s

\* TRACK mode, frame without a valid bird
TrackLost(s) == LostThreshold([s EXCEPT !.lost_frame_count = @ + 1])

\* `continue` after the centring step
CentreContinue(s) ==
    IF Ok(s) THEN [s EXCEPT !.skip = TRUE, !.branch = "track_continue"] ELSE s

\* TRACK mode, should_move: the rate-limited centring step, then `continue`
TrackCentre(s) ==
    IF s.motor_elapsed >= MOTOR_CMD_INTERVAL
    THEN CentreContinue(MotorSent(send_gcode(s, "Z_TRACK")))
    ELSE CentreContinue(s)

\* state.laser_active = True
LaserMarked(s) == IF Ok(s) THEN [s EXCEPT !.laser_active = TRUE] ELSE s

\* The end of the try block and its `except ValueError`
PatternStarted(s) ==
    IF s.exc = "ValueError"
    THEN [s EXCEPT !.exc = "none", !.lost_frame_count = @ + 1]
    ELSE IF Ok(s) THEN [s EXCEPT !.pattern_active = TRUE, !.pattern_elapsed = 0]
    ELSE s

\* TRACK mode, the try block: aim, laser on, start the pattern
AimAndStart(s, distance) ==
    IF GroundAimRaises(distance)
    THEN [s EXCEPT !.lost_frame_count = @ + 1]
    ELSE PatternStarted(start_square_pattern(
             LaserMarked(turn_on(send_gcode(s, "MOVE_AIM"))), distance))

\* The range check and the restart debounce before the try block
\* (the variant has no range check)
RangeCheck_NoRange(s, distance) ==
    IF s.pattern_elapsed < PATTERN_RESTART_DEBOUNCE
    THEN s
    ELSE AimAndStart(s, distance)

RangeCheck(s, distance) ==
    IF distance < MIN_DISTANCE_FT \/ distance > MAX_DISTANCE_FT
    THEN [s EXCEPT !.lost_frame_count = @ + 1]
    ELSE IF s.pattern_elapsed < PATTERN_RESTART_DEBOUNCE
    THEN s
    ELSE AimAndStart(s, distance)

\* After tracker.update: centre first, else estimate the distance and go on
TrackDecide(s, r, distance) ==
    IF r.should_move THEN TrackCentre(s) ELSE RangeCheck(s, distance)

\* TRACK mode, valid bird and no pattern running
\* (frames_without_target stops counting at the tracker's lost threshold)
TrackUpdated(s, r, d) ==
    TrackDecide([s EXCEPT !.frames_without_target = Min(r.frames, TARGET_LOST_THRESHOLD)],
                r, get_distance(d.y2))

\* tracker.update on the bbox centre of the bird
TrackAcquire(s, d) ==
    TrackUpdated([s EXCEPT !.aimed = [offset_px |-> d.cx - (cfg.frame_width \div 2),
                                      distance_ft |-> get_distance(d.y2)]],
                 TrackerUpdate(cfg, s.frames_without_target, TRUE, d.cx, d.conf), d)

\* STATE MACHINE: TRACK MODE
\* (the variant runs the tracker while the pattern is active)
TrackMode_IgnoresPattern(s, d) ==
    IF ~ValidBird(d) THEN TrackLost([s EXCEPT !.branch = "track"])
    ELSE TrackAcquire([s EXCEPT !.branch = "track", !.lost_frame_count = 0], d)

TrackMode(s, d) ==
    IF ~ValidBird(d) THEN TrackLost([s EXCEPT !.branch = "track"])
    ELSE IF s.pattern_active
    THEN [s EXCEPT !.branch = "track", !.lost_frame_count = 0]
    ELSE TrackAcquire([s EXCEPT !.branch = "track", !.lost_frame_count = 0], d)

\* The two branches of the state machine
StateMachine(s, d) ==
    IF ~Ok(s) \/ s.skip THEN s
    ELSE IF s.mode = "SEARCH" THEN SearchMode(s, d)
    ELSE IF s.mode = "TRACK" THEN TrackMode(s, d)
    ELSE s

\* One pass through the loop body for a frame carrying detection d
Body(s, d, k) == StateMachine(KeyInput(HumanSafety(s, d), k), d)

\* ------------------------------------------------------------------------
\* MotionController (src/Motion/MotionController.py)
\* Positions in tenths of a millimetre, angles in degrees.  An Optional
\* float is << >> for None and << v >> for the value v.
\* ------------------------------------------------------------------------

None == << >>
Some(v) == << v >>

\* MOTION_CONFIG["limits"], as [min, max] per axis
MOTION_LIMITS == [x |-> << X_MIN, X_MAX >>, y |-> << Y_MIN, Y_MAX >>,
                  z |-> << Z_MIN, Z_MAX >>]

Axes == {"x", "y", "z"}

\* The arguments the callers are given in the model: within, below and
\* above the range of an axis, and an angle that is a whole number of
\* millimetres
XArgs == {None, Some(X_MAX + 430)}
YArgs == {None, Some(Y_MIN - 50)}
ZArgs == {None, Some(Z_NEUTRAL), Some(Z_MAX + 50)}
AngleArgs == {None, Some(0 - 225)}
ZDeltaArgs == {0 - 50, 150}

\* angle * self._z_deg_to_mm, with mm_per_degree = 8.0 / 360.0
AngleToZ(angle) == (angle * MM_PER_TURN) \div 360

\* max(lo, v) then min(hi, v)
Clamp(axis, v) == Min(MOTION_LIMITS[axis][2], Max(MOTION_LIMITS[axis][1], v))

\* MotionController.__init__, with the record of what was put on the wire:
\* seed is the Z of the last absolute move sent, dz_sum the sum of the
\* relative Z steps sent since, out the commands of the last call
NewMotionController ==
    [intent |-> [a \in Axes |-> None], last_sent |-> [a \in Axes |-> None],
     last_commanded_z |-> None,
     seed |-> None, dz_sum |-> 0, out |-> << >>, raised |-> FALSE]

\* A call starts with nothing sent
Called(m) == [m EXCEPT !.out = << >>, !.raised = FALSE]

\* A relative Z step reaches the wire
EmitRelative(m, cmd, dz) ==
    [m EXCEPT !.out = Append(@, [cmd |-> cmd, dz |-> dz]),
              !.dz_sum = @ + dz]

\* An absolute move reaches the wire: to is the clamped target per axis
EmitAbsolute(m, cmd, to) ==
    [m EXCEPT !.out = Append(@, [cmd |-> cmd, to |-> to]),
              !.seed = IF to.z # None THEN to.z ELSE @,
              !.dz_sum = IF to.z # None THEN 0 ELSE @]

\* set_intent(x=, y=, z=, angle=)
set_intent(m, x, y, z, angle) ==
    [Called(m) EXCEPT
        !.intent = [x |-> IF x # None THEN x ELSE @.x,
                    y |-> IF y # None THEN y ELSE @.y,
                    z |-> IF angle # None THEN Some(AngleToZ(angle[1]))
                          ELSE IF z # None THEN z ELSE @.z]]

\* update, lines 126 to 149: the clamped Z target and the step towards it
ClampedZ(m) == Clamp("z", m.intent.z[1])

DeltaZ(m) ==
    IF m.intent.z = None THEN None
    ELSE IF m.last_commanded_z = None THEN None
    ELSE IF Abs(ClampedZ(m) - m.last_commanded_z[1]) <= DEADBAND_Z THEN None
    ELSE Some(ClampedZ(m) - m.last_commanded_z[1])

\* update, lines 152 to 164: the axes of the X/Y move
XYMove(m) ==
    [a \in {"x", "y", "z"} |->
        IF a # "z" /\ m.intent[a] # None
           /\ (m.last_sent[a] = None \/ m.intent[a] # m.last_sent[a])
        THEN Some(Clamp(a, m.intent[a][1])) ELSE None]

HasZMove(m) == DeltaZ(m) # None /\ DeltaZ(m)[1] # 0
HasXYMove(m) == XYMove(m).x # None \/ XYMove(m).y # None

\* update, lines 182 to 188 and 195 to 198: the relative Z step and its
\* bookkeeping; send_gcode raises when the transport gave out
StreamZ(m, ok) ==
    IF ~ok THEN [m EXCEPT !.raised = TRUE]
    ELSE [EmitRelative(m, "Move", DeltaZ(m)[1]) EXCEPT
             !.last_commanded_z = Some(ClampedZ(m)),
             !.last_sent.z = Some(ClampedZ(m))]

\* update, lines 201 to 210: last_sent is written before the send
StreamXY(m, move, ok) ==
    IF m.raised THEN m
    ELSE IF ~ok
    THEN [m EXCEPT !.raised = TRUE,
                   !.last_sent.x = IF move.x # None THEN move.x ELSE @,
                   !.last_sent.y = IF move.y # None THEN move.y ELSE @]
    ELSE [EmitAbsolute(m, "MOVE", move) EXCEPT
                   !.last_sent.x = IF move.x # None THEN move.x ELSE @,
                   !.last_sent.y = IF move.y # None THEN move.y ELSE @]

\* update(): due is the rate limiter letting the call through, budget the
\* number of sends the transport carries before it raises
update(m, due, budget) ==
    IF ~due THEN Called(m)
    ELSE IF ~HasZMove(m) /\ ~HasXYMove(m) THEN Called(m)
    ELSE IF ~HasXYMove(m) THEN StreamZ(Called(m), budget > 0)
    ELSE IF HasZMove(m)
    THEN StreamXY(StreamZ(Called(m), budget > 0), XYMove(m), budget > 1)
    ELSE StreamXY(Called(m), XYMove(m), budget > 0)

\* move_blocking, lines 231 to 242
ClampedIntent(m) ==
    [a \in Axes |-> IF m.intent[a] # None THEN Some(Clamp(a, m.intent[a][1])) ELSE None]

\* move_blocking(): the absolute move of the whole intent
move_blocking(m, ok) ==
    IF \A a \in Axes : m.intent[a] = None THEN Called(m)
    ELSE IF ~ok
    THEN [Called(m) EXCEPT
             !.raised = TRUE,
             !.last_sent = [a \in Axes |-> IF ClampedIntent(m)[a] # None
                                           THEN ClampedIntent(m)[a] ELSE @[a]]]
    ELSE [EmitAbsolute(Called(m), "G0", ClampedIntent(m)) EXCEPT
             !.last_sent = [a \in Axes |-> IF ClampedIntent(m)[a] # None
                                           THEN ClampedIntent(m)[a] ELSE @[a]],
             !.last_commanded_z = IF ClampedIntent(m).z # None
                                  THEN ClampedIntent(m).z ELSE @]

\* move_z_relative_blocking, lines 288 to 296: the bookkeeping, done
\* before the call
TrackRelative(m, z_delta) ==
    IF m.last_commanded_z = None THEN m
    ELSE [m EXCEPT
            !.last_commanded_z = Some(Clamp("z", m.last_commanded_z[1] + z_delta)),
            !.last_sent.z = Some(Clamp("z", m.last_commanded_z[1] + z_delta))]

\* move_z_relative_blocking(z_delta): o is how the call ended, on_wire
\* whether the script was sent before it ended
move_z_relative_blocking(m, z_delta, o, on_wire) ==
    IF ~on_wire
    THEN [TrackRelative(Called(m), z_delta)
             EXCEPT !.raised = TRUE]
    ELSE [EmitRelative(TrackRelative(Called(m), z_delta),
                       "G91", z_delta)
             EXCEPT !.raised = (o \in {"TimeoutError", "RuntimeError"})]

\* ------------------------------------------------------------------------
\* MoonrakerWSClient (src/Motion/Moonraker_ws_v2.py): threads in call(),
\* the reader thread in _rx_loop and a thread in close()
\* ------------------------------------------------------------------------

Callers == {"t1", "t2"}
Ids == 1..MaxRequests

\* _PendingRequest() and _PendingRequest.finish
NewPending == [set |-> FALSE, response |-> FALSE, error |-> "none"]
finish(response, error) == [set |-> TRUE, response |-> response, error |-> error]

\* The client once connect() has returned.  sock is the socket under _ws;
\* allocated, responses and last record what happened: the ids in the
\* order they were allocated, how often finish(response=...) was called
\* on the waiter of an id, the id the next call would get when a
\* notification handler last raised (0: none has), and the last step taken
NewClient ==
    [next_id |-> 1, pending |-> {}, waiter |-> [k \in Ids |-> NewPending],
     ws |-> TRUE, rx_thread |-> TRUE, stop_event |-> FALSE, sock |-> "open",
     rx |-> "recv", hold |-> 0,
     closer |-> "idle",
     caller |-> [c \in Callers |-> [pc |-> "idle", id |-> 0, result |-> "none"]],
     allocated |-> << >>, responses |-> [k \in Ids |-> 0],
     handler_raised |-> 0,
     last |-> [op |-> "connect", who |-> "main", id |-> 0]]

\* The client as __init__ leaves it: no socket, no reader thread
Constructed ==
    [NewClient EXCEPT !.ws = FALSE, !.rx_thread = FALSE, !.rx = "dead",
                      !.sock = "closed",
                      !.last = [op |-> "init", who |-> "main", id |-> 0]]

Did(r, op, who, id) == [r EXCEPT !.last = [op |-> op, who |-> who, id |-> id]]

is_connected(r) == r.ws /\ r.rx_thread /\ r.rx # "dead" /\ ~r.stop_event

\* for pending in self._pending.values(): pending.finish(error=...);
\* self._pending.clear()
FailPending(r) ==
    [r EXCEPT !.waiter = [k \in Ids |-> IF k \in r.pending
                                      THEN finish(FALSE, "RuntimeError") ELSE @[k]],
              !.pending = {}]

\* self._pending.pop(req_id, None)
PopPending(r, k) == [r EXCEPT !.pending = @ \ {k}]

\* call, line 176: the connection test
CallEnter(r, c) ==
    IF is_connected(r)
    THEN Did([r EXCEPT !.caller[c] = [pc |-> "allocate", id |-> 0, result |-> "none"]],
             "enter", c, 0)
    ELSE Did([r EXCEPT !.caller[c] = [pc |-> "done", id |-> 0, result |-> "RuntimeError"]],
             "enter", c, 0)

\* call, lines 180 to 182, under _pending_lock
CallAllocate(r, c) ==
    Did([r EXCEPT !.caller[c].id = r.next_id, !.caller[c].pc = "register",
                  !.next_id = @ + 1, !.allocated = Append(@, r.next_id)],
        "allocate", c, r.next_id)

\* call, lines 192 to 194, under _pending_lock
CallRegister(r, c) ==
    Did([r EXCEPT !.pending = @ \cup {r.caller[c].id},
                  !.waiter[r.caller[c].id] = NewPending,
                  !.caller[c].pc = "send"],
        "register", c, r.caller[c].id)

\* call, lines 197 to 206: carried is whether a socket that is there and
\* open takes the frame
CallSend(r, c, carried) ==
    IF r.ws /\ r.sock = "open" /\ carried
    THEN Did([r EXCEPT !.caller[c].pc = "wait"], "send", c, r.caller[c].id)
    ELSE Did([PopPending(r, r.caller[c].id) EXCEPT
                 !.waiter[r.caller[c].id] = finish(FALSE, "RuntimeError"),
                 !.caller[c].pc = "done", !.caller[c].result = "RuntimeError"],
             "send_failed", c, r.caller[c].id)

\* call, lines 209 and 215 to 221: the event was set within the timeout
CallWake(r, c) ==
    Did([r EXCEPT !.caller[c].pc = "done",
                  !.caller[c].result =
                      IF r.waiter[r.caller[c].id].error # "none"
                      THEN r.waiter[r.caller[c].id].error
                      ELSE IF ~r.waiter[r.caller[c].id].response THEN "RuntimeError"
                      ELSE "response"],
        "wake", c, r.caller[c].id)

\* call, line 209: event.wait(timeout_s) returned False
CallExpire(r, c) ==
    Did([r EXCEPT !.caller[c].pc = "expired"], "expire", c, r.caller[c].id)

CallTimeout_KeepsWaiter(r, c) ==
    Did([r EXCEPT
            !.waiter[r.caller[c].id] = finish(FALSE, "TimeoutError"),
            !.caller[c].pc = "done", !.caller[c].result = "TimeoutError"],
        "timeout", c, r.caller[c].id)

\* call, lines 210 to 213
CallTimeout(r, c) ==
    Did([PopPending(r, r.caller[c].id) EXCEPT
            !.waiter[r.caller[c].id] = finish(FALSE, "TimeoutError"),
            !.caller[c].pc = "done", !.caller[c].result = "TimeoutError"],
        "timeout", c, r.caller[c].id)

RxFrame_Peek(r, k) ==
    IF k \in r.pending
    THEN Did([r EXCEPT !.rx = "finish", !.hold = k], "frame", "rx", k)
    ELSE Did(r, "frame", "rx", k)

\* _rx_loop, lines 396 and 413 to 416: a frame with "id": k was read and
\* its waiter, if any, taken from the table under _pending_lock
RxFrame(r, k) ==
    IF k \in r.pending
    THEN Did([PopPending(r, k) EXCEPT !.rx = "finish", !.hold = k], "frame", "rx", k)
    ELSE Did(r, "frame", "rx", k)

\* _rx_loop, lines 417 to 418
RxFinish(r) ==
    Did([r EXCEPT !.waiter[r.hold] = finish(TRUE, "none"),
                  !.responses[r.hold] = @ + 1,
                  !.rx = "recv", !.hold = 0],
        "finish", "rx", r.hold)

\* _rx_loop, lines 394 to 402: the loop is left because the stop event is
\* set, because the socket was closed, or on any other exception of recv
RxBreak(r, cause) ==
    Did([r EXCEPT !.rx = "failing",
                  !.sock = IF cause = "closed" THEN "closed" ELSE @],
        "break", "rx", 0)

\* _rx_loop, lines 436 to 441, under _pending_lock
RxFailPending(r) == Did([FailPending(r) EXCEPT !.rx = "clearing"], "fail_pending", "rx", 0)

\* _rx_loop, line 443, and the end of the thread
RxClear(r) == Did([r EXCEPT !.ws = FALSE, !.rx = "dead"], "clear", "rx", 0)

RxNotify_Propagates(r, registered, raises) ==
    IF registered /\ raises
    THEN Did([r EXCEPT !.handler_raised = r.next_id, !.rx = "dead"],
             "notify_raised", "rx", 0)
    ELSE Did(r, IF registered THEN "notify" ELSE "notify_unhandled", "rx", 0)

\* _rx_loop, lines 421 to 433: a frame with "method" was read; the handler
\* registered for the method, if any, is called inside try/except Exception
RxNotify(r, registered, raises) ==
    IF registered /\ raises
    THEN Did([r EXCEPT !.handler_raised = r.next_id], "notify_raised", "rx", 0)
    ELSE Did(r, IF registered THEN "notify" ELSE "notify_unhandled", "rx", 0)

\* close, lines 133 to 148: the stop event is set, _ws and _rx_thread are
\* dropped, the socket that was there is closed; the join on the reader
\* ends when the reader has ended or after two seconds
CloseBegin(r) ==
    Did([r EXCEPT !.stop_event = TRUE, !.ws = FALSE, !.rx_thread = FALSE,
                  !.sock = IF r.ws THEN "closed" ELSE @, !.closer = "fail"],
        "begin", "close", 0)

CloseFailPending_KeepsTable(r) ==
    Did([r EXCEPT !.closer = "closed"], "fail_pending", "close", 0)

\* close, lines 151 to 154, under _pending_lock
CloseFailPending(r) ==
    Did([FailPending(r) EXCEPT !.closer = "closed"], "fail_pending", "close", 0)

\* The same two loops over the pending table a statement at a time.
\* finish() sets the event of a waiter, and the caller it wakes needs no
\* lock to leave call(); the table is emptied after the loop.  A thread
\* that needs _pending_lock takes no step while the lock is held.

\* for pending in self._pending.values(): pending.finish(error=...)
FinishPending(r) ==
    [r EXCEPT !.waiter = [k \in Ids |-> IF k \in r.pending
                                      THEN finish(FALSE, "RuntimeError") ELSE @[k]]]

\* self._pending.clear()
ClearPending(r) == [r EXCEPT !.pending = {}]

\* _pending_lock is held by close() or by the reader between their loop
\* over the table and the clear()
PendingLockHeld(r) == r.closer = "emptying" \/ r.rx = "emptying"

\* _rx_loop, lines 436 to 440
RxFinishPending(r) ==
    Did([FinishPending(r) EXCEPT !.rx = "emptying"], "finish_pending", "rx", 0)

\* _rx_loop, line 441, and the end of the with block
RxClearPending(r) ==
    Did([ClearPending(r) EXCEPT !.rx = "clearing"], "clear_pending", "rx", 0)

\* close, lines 151 to 153
CloseFinishPending(r) ==
    Did([FinishPending(r) EXCEPT !.closer = "emptying"], "finish_pending", "close", 0)

\* close, line 154, and the end of the with block
CloseClearPending(r) ==
    Did([ClearPending(r) EXCEPT !.closer = "closed"], "clear_pending", "close", 0)

\* ------------------------------------------------------------------------
\* YoloModel/YoloInterface.py: the shared VisionState, the vision worker
\* that overwrites it and a thread in get_latest_detection.  Time in
\* quarters of a second.  Every field carries, next to its value v, the
\* number w of the write it came from (0 for VisionState()).
\* ------------------------------------------------------------------------

Fields == {"timestamp", "has_target", "bbox_center", "bbox", "confidence"}

\* The order in which _vision_worker assigns the fields (lines 124 to 128)
WriteOrder == << "timestamp", "has_target", "bbox_center", "bbox", "confidence" >>

\* What detect_human returns for a frame with and without a target
Found == [has_target |-> TRUE, bbox_center |-> "xy", bbox |-> "box", confidence |-> 90]
NotFound == [has_target |-> FALSE, bbox_center |-> "None", bbox |-> "None", confidence |-> 0]

\* VisionState()
NewVisionState ==
    [timestamp |-> [w |-> 0, v |-> 0],
     has_target |-> [w |-> 0, v |-> FALSE],
     bbox_center |-> [w |-> 0, v |-> "None"],
     bbox |-> [w |-> 0, v |-> "None"],
     confidence |-> [w |-> 0, v |-> 0]]

\* The module after import: lock is who holds _vision_state_lock, wpc the
\* number of fields the worker has assigned under it, rpc_at where the
\* reader is; the clock starts long after time 0
NewVision ==
    [shared |-> NewVisionState, lock |-> "free",
     wpc |-> 0, detected |-> NotFound, writes |-> 0,
     now |-> STALENESS_THRESHOLD_S + 1,
     reader |-> "idle", copy |-> NewVisionState, state |-> NewVisionState,
     checked_at |-> 0]

WorkerLock_NoLock(v, d) ==
    [v EXCEPT !.wpc = 1, !.detected = d, !.writes = @ + 1]

\* _vision_worker, line 123: with _vision_state_lock
WorkerLock(v, d) ==
    [v EXCEPT !.lock = "worker", !.wpc = 1, !.detected = d, !.writes = @ + 1]

\* _vision_worker, lines 124 to 128: the next assignment under the lock
WorkerAssign(v) ==
    [v EXCEPT !.shared[WriteOrder[v.wpc]] =
                  [w |-> v.writes,
                   v |-> IF WriteOrder[v.wpc] = "timestamp" THEN v.now
                         ELSE v.detected[WriteOrder[v.wpc]]],
              !.wpc = @ + 1]

\* _vision_worker: the end of the with block
WorkerUnlock(v) == [v EXCEPT !.lock = "free", !.wpc = 0]

\* get_latest_detection, lines 191 to 199: the copy under the lock
ReadCopy(v) == [v EXCEPT !.copy = v.shared, !.reader = "copied"]

\* get_latest_detection, lines 202 to 207: the staleness check
Stale(v) == v.now - v.copy.timestamp.v > STALENESS_THRESHOLD_S

ReadCheck(v) ==
    [v EXCEPT !.checked_at = v.now, !.reader = "returned",
              !.state = IF Stale(v)
                        THEN [v.copy EXCEPT !.has_target.v = FALSE,
                                            !.bbox_center.v = "None",
                                            !.bbox.v = "None",
                                            !.confidence.v = 0]
                        ELSE v.copy]

\* ------------------------------------------------------------------------
\* Behavior/Search_v2.py: SearchController.  Angles in tenths of a degree,
\* time in hundredths of a second, velocity in degrees per second.
\* ------------------------------------------------------------------------

\* min(config.angular_velocity, config.max_angular_velocity)
SearchVelocity == Min(SEARCH_ANGULAR_VELOCITY, SEARCH_MAX_ANGULAR_VELOCITY)

\* SearchController(config): result is the dict the last update returned,
\* old_angle the angle before that update
NewSearch ==
    [current_angle |-> SEARCH_START_ANGLE, direction |-> 1,
     result |-> << >>, old_angle |-> SEARCH_START_ANGLE, updates |-> 0]

\* update, lines 45 to 49: the angle the elapsed time dt leads to
NextAngle(s, dt) ==
    s.current_angle + (SearchVelocity * Min(dt, SEARCH_MAX_DT) * s.direction) \div 10

\* SearchController.update(), dt after the update before
search_update(s, dt) ==
    IF NextAngle(s, dt) > SEARCH_MAX_ANGLE
    THEN [s EXCEPT !.old_angle = s.current_angle, !.updates = 1,
                   !.current_angle = SEARCH_MAX_ANGLE, !.direction = 0 - 1,
                   !.result = [angle |-> SEARCH_MAX_ANGLE]]
    ELSE IF NextAngle(s, dt) < SEARCH_MIN_ANGLE
    THEN [s EXCEPT !.old_angle = s.current_angle, !.updates = 1,
                   !.current_angle = SEARCH_MIN_ANGLE, !.direction = 1,
                   !.result = [angle |-> SEARCH_MIN_ANGLE]]
    ELSE [s EXCEPT !.old_angle = s.current_angle, !.updates = 1,
                   !.current_angle = NextAngle(s, dt),
                   !.result = [angle |-> NextAngle(s, dt)]]

\* SearchController.reset()
search_reset(s) == [s EXCEPT !.current_angle = SEARCH_START_ANGLE, !.direction = 1]

\* search_result.get("z_delta", 0.0) of SystemMain.py, line 622
ResultGet(result, key, default) ==
    IF key \in DOMAIN result THEN result[key] ELSE default

\* TrackingController(TRACKING_CONFIG) before its first update, with the
\* arguments and the result of the last update
NewTracker ==
    [config |-> TRACKING_CONFIG, called |-> FALSE, has_center |-> FALSE,
     cx |-> 0, conf |-> 0, frames |-> 0, misses |-> 0,
     result |-> [should_move |-> FALSE, z_delta |-> 0, error_px |-> 0,
                 target_locked |-> FALSE, frames |-> 0]]

\* TrackingController.is_target_lost()
is_target_lost(t) == t.frames >= TARGET_LOST_THRESHOLD

\* ------------------------------------------------------------------------
\* Distance/Model.py: load_model, get_distance, get_y.  A calibration is a
\* sequence of points [y |-> pixel row, d |-> distance in tenths of a foot].
\* ------------------------------------------------------------------------

\* sorted(points, key=...): the stable insertion of p into a sorted sequence
RECURSIVE InsertBy(_, _, _)
InsertBy(p, sorted, key) ==
    IF sorted = << >> THEN << p >>
    ELSE IF p[key] < Head(sorted)[key] THEN << p >> \o sorted
    ELSE << Head(sorted) >> \o InsertBy(p, Tail(sorted), key)

RECURSIVE SortedBy(_, _)
SortedBy(points, key) ==
    IF points = << >> THEN << >>
    ELSE InsertBy(points[Len(points)], SortedBy(SubSeq(points, 1, Len(points) - 1), key), key)

\* The index numpy's binary search finds: the last j with xp[j] <= x
LastAtMost(x, xp) ==
    CHOOSE j \in 1..Len(xp) :
        /\ xp[j] <= x
        /\ \A i \in 1..Len(xp) : xp[i] <= x => i <= j

\* np.interp(x, xp, fp) for xp in ascending order: the end values outside
\* the range, fp itself on a point, the chord between two points
np_interp(x, xp, fp) ==
    IF x < xp[1] THEN fp[1]
    ELSE IF LastAtMost(x, xp) = Len(xp) THEN fp[Len(fp)]
    ELSE IF xp[LastAtMost(x, xp)] = x THEN fp[LastAtMost(x, xp)]
    ELSE fp[LastAtMost(x, xp)]
         + ((fp[LastAtMost(x, xp) + 1] - fp[LastAtMost(x, xp)]) * (x - xp[LastAtMost(x, xp)]))
           \div (xp[LastAtMost(x, xp) + 1] - xp[LastAtMost(x, xp)])

Column(points, key) == [i \in 1..Len(points) |-> points[i][key]]

\* The module before load_model: the four globals are None
NoModel == [loaded |-> FALSE, interp_y |-> << >>, interp_dist_from_y |-> << >>,
            interp_dist |-> << >>, interp_y_from_dist |-> << >>]

\* load_model(calibration_data): raises ValueError or assigns the globals
LoadRaises(calibration_data) == Len(calibration_data) < 2

load_model(calibration_data) ==
    [loaded |-> TRUE,
     interp_dist |-> Column(SortedBy(calibration_data, "d"), "d"),
     interp_y_from_dist |-> Column(SortedBy(calibration_data, "d"), "y"),
     interp_y |-> Column(SortedBy(calibration_data, "y"), "y"),
     interp_dist_from_y |-> Column(SortedBy(calibration_data, "y"), "d")]

\* get_distance(y) and get_y(distance) on the loaded model m
model_get_distance(m, y) == np_interp(y, m.interp_y, m.interp_dist_from_y)
get_y(m, distance) == np_interp(distance, m.interp_dist, m.interp_y_from_dist)

\* Distance/Model.py after import, with the last call and its outcome
NewDistance ==
    [model |-> NoModel, source |-> << >>, op |-> "import", arg |-> << >>,
     result |-> 0, error |-> "none"]

\* ------------------------------------------------------------------------
\* Laser/GroundAim.py: get_motor_deltas_for_ground_hit on Python floats.
\* A float is followed by its sign and its binary exponent: sign * 2^exp.
\* ------------------------------------------------------------------------

\* The largest exponent of a finite double and the exponent of the
\* smallest positive one
FLOAT_MAX_EXP == 1023
FLOAT_MIN_EXP == -1074

\* v**2 raises OverflowError when the square is not a finite double
SquareOverflows(v) == v.sign # 0 /\ 2 * v.exp > FLOAT_MAX_EXP

\* v**2 is 0.0 for v = 0.0 and when the square is below every double
SquareIsZero(v) == v.sign = 0 \/ 2 * v.exp < FLOAT_MIN_EXP

\* The outcome of get_motor_deltas_for_ground_hit(x_m, z_m): the exception
\* it raises, or "returned"
get_motor_deltas_for_ground_hit(x_m, z_m) ==
    IF z_m.sign <= 0 THEN "ValueError"
    ELSE IF SquareOverflows(x_m) \/ SquareOverflows(z_m) THEN "OverflowError"
    ELSE IF SquareIsZero(x_m) /\ SquareIsZero(z_m) THEN "ZeroDivisionError"
    ELSE "returned"

\* No aim computed yet
NewAim == [called |-> FALSE, x_m |-> [sign |-> 0, exp |-> 0],
           z_m |-> [sign |-> 0, exp |-> 0], outcome |-> "none"]

\* ------------------------------------------------------------------------
\* The calibration sessions: LiveCalibrationUI with
\* run_live_distance_calibration (SystemMain.py) and VideoCalibrator
\* (Distance/Calibration.py).  stored is the entry of the session's name in
\* the calibration file: << >> or << points >>.
\* ------------------------------------------------------------------------

LIVE_MIN_POINTS == 6
VIDEO_MIN_POINTS == 2

\* No session opened yet
NewSession == [ui |-> "none", points |-> << >>, stored |-> << >>, outcome |-> "none"]

\* LiveCalibrationUI.__init__ / VideoCalibrator.__init__ under a new name
session_open(kind) == [ui |-> kind, points |-> << >>, stored |-> << >>, outcome |-> "none"]

\* _mouse_callback: the live UI refuses a distance that is not positive
session_click(s, y, distance) ==
    IF s.ui = "live" /\ distance <= 0 THEN s
    ELSE [s EXCEPT !.points = Append(@, [y |-> y, d |-> distance])]

\* 'U': drop the last point, if any
session_undo(s) ==
    IF s.points = << >> THEN s
    ELSE [s EXCEPT !.points = SubSeq(@, 1, Len(@) - 1)]

\* 'S' is refused: too few points for this UI
SaveRefused(s) ==
    \/ s.ui = "live" /\ Len(s.points) < LIVE_MIN_POINTS
    \/ s.ui = "video" /\ Len(s.points) < VIDEO_MIN_POINTS

\* 'S': refused, or create_calibration writes the points; written tells
\* whether _save_storage succeeded.  The live UI has closed by then, the
\* video UI stays open after a failed write.
session_save(s, written) ==
    IF SaveRefused(s) THEN [s EXCEPT !.outcome = "refused"]
    ELSE IF written
    THEN [s EXCEPT !.stored = << s.points >>, !.outcome = "saved", !.ui = "done"]
    ELSE [s EXCEPT !.outcome = "failed", !.ui = IF s.ui = "live" THEN "done" ELSE @]

\* 'Q': the session ends without a save
session_quit(s) == [s EXCEPT !.outcome = "aborted", !.ui = "done"]

\* ------------------------------------------------------------------------
\* MotionController.update called from several threads: the rate check
\* reads the clock and _last_send_time before the lock is taken, the send
\* and the write of _last_send_time happen under the lock.  Time is in
\* seconds; emitted and before are the times of the last two sends.
\* ------------------------------------------------------------------------

\* 1.0 / send_rate_hz for the 0.5 Hz of MOTION_CONFIG
SEND_PERIOD_S == 2

Updaters == {"u1", "u2"}

\* The controller after __init__, the monotonic clock already past one
\* send period, every thread outside update()
NewUpdater ==
    [clock |-> SEND_PERIOD_S, last_send_time |-> 0,
     intent_z |-> 0, last_commanded_z |-> 0,
     pc |-> [u \in Updaters |-> "idle"], now |-> [u \in Updaters |-> 0],
     emitted |-> << >>, before |-> << >>]

\* update() up to the lock: read the clock, return if the period has not
\* passed, else go on to the lock
update_check(c, u) ==
    IF c.clock - c.last_send_time < SEND_PERIOD_S THEN c
    ELSE [c EXCEPT !.pc[u] = "checked", !.now[u] = c.clock]

\* update() under the lock: nothing to do without a Z step; else send the
\* step and record the time read before the lock
update_locked(c, u) ==
    IF c.intent_z = c.last_commanded_z THEN [c EXCEPT !.pc[u] = "idle"]
    ELSE [c EXCEPT !.pc[u] = "idle",
                   !.last_commanded_z = c.intent_z,
                   !.last_send_time = c.now[u],
                   !.before = c.emitted,
                   !.emitted = << c.clock >>]

\* ------------------------------------------------------------------------
\* Distance/YoloInterface.py: _vision_worker hands its results to
\* detect_human_live through _vision_queue = queue.Queue(maxsize=1).
\* A result is [run |-> number of the detector run, d |-> what it found].
\* ------------------------------------------------------------------------

\* The module after import: no run yet, the queue empty, nothing read
NewVisionQueue == [runs |-> 0, queue |-> << >>, got |-> << >>, reads |-> 0]

\* _vision_worker, lines 93 to 99: one detector run, then put_nowait; the
\* result is dropped when the queue is full
vision_worker_run(q, d) ==
    [q EXCEPT !.runs = @ + 1,
              !.queue = IF @ = << >> THEN << [run |-> q.runs + 1, d |-> d] >> ELSE @]

\* detect_human_live: get_nowait, or the default tuple when the queue is
\* empty
queue_detect_human_live(q) ==
    [q EXCEPT !.got = q.queue, !.queue = << >>, !.reads = @ + 1]

\* ------------------------------------------------------------------------
\* Main_Functions.py: compute_next_search_position, the Z sweep of Main.py
\* ------------------------------------------------------------------------

\* The defaults lower=0, upper=20
SEARCH_LOWER_Z == 0
SEARCH_UPPER_Z == 20

\* compute_next_search_position(current_z, direction, lower, upper, step):
\* the sweep s after one more call
compute_next_search_position(s) ==
    IF s.direction > 0
    THEN IF s.current_z + s.step > SEARCH_UPPER_Z
         THEN [s EXCEPT !.current_z = SEARCH_UPPER_Z, !.direction = 0 - 1]
         ELSE [s EXCEPT !.current_z = s.current_z + s.step]
    ELSE IF s.current_z - s.step < SEARCH_LOWER_Z
         THEN [s EXCEPT !.current_z = SEARCH_LOWER_Z, !.direction = 1]
         ELSE [s EXCEPT !.current_z = s.current_z - s.step]

\* main(): current_z = SEARCH_START_Z, scan_direction = 1; updates counts
\* the calls since the start, up to MaxUpdates
NewSweep == [current_z |-> 10, direction |-> 1, step |-> 1, updates |-> 0]

\* ------------------------------------------------------------------------
\* Laser/DeterrencePattern.py, Laser/GroundAim.py and the IMU reader of
\* Aim_Test.py: the corners of one pattern and the platform roll.  Angles
\* in degrees.
\* ------------------------------------------------------------------------

ROLL_OFFSET_DEG == 90

\* The rolls the IMU reports: 4 degrees to either side of level
ImuReadings == {ROLL_OFFSET_DEG - 4, ROLL_OFFSET_DEG, ROLL_OFFSET_DEG + 4}

\* compute_square_corners: bottom-left, bottom-right, top-right, top-left
SquareCorners == << "BL", "BR", "TR", "TL" >>

\* GroundAim as imported (PLATFORM_ROLL_RAD = 0.0), no pattern asked for:
\* pc is where start_square_pattern is, motor_positions the list
\* compute_motor_positions has built so far, defined the corners of the
\* last GRID_DEFINE
NewPattern ==
    [PLATFORM_ROLL |-> 0, pc |-> "idle", motor_positions |-> << >>,
     defined |-> << >>]

\* esp32_reader_thread, lines 89 to 96: one line of the IMU
esp32_reader_line(p, roll_deg) ==
    [p EXCEPT !.PLATFORM_ROLL = roll_deg - ROLL_OFFSET_DEG]

\* get_motor_deltas_for_ground_hit, line 103: the Y angle of a corner is
\* its mirror angle less half of PLATFORM_ROLL_RAD as it is at the call
roll_compensation(p, corner) ==
    [corner |-> corner, roll |-> p.PLATFORM_ROLL, correction |-> p.PLATFORM_ROLL \div 2]

\* compute_motor_positions: one turn of the loop over the corners
compute_motor_position(p) ==
    [p EXCEPT !.motor_positions =
                  Append(@, roll_compensation(p, SquareCorners[Len(@) + 1])),
              !.pc = IF Len(p.motor_positions) + 1 = Len(SquareCorners)
                     THEN "define" ELSE "corners"]

\* start_square_pattern, lines 141 to 153: GRID_DEFINE with the four
\* positions, then GRID_START
send_define(p) ==
    [p EXCEPT !.defined = p.motor_positions, !.pc = "idle"]

\* The components that are followed on their own, as the program starts
NewComponents ==
    [vision |-> NewVision, search |-> NewSearch, tracker |-> NewTracker,
     distance |-> NewDistance, aim |-> NewAim, session |-> NewSession,
     updater |-> NewUpdater, vision_queue |-> NewVisionQueue,
     sweep |-> NewSweep, pattern |-> NewPattern]

\* ------------------------------------------------------------------------
\* Actions
\* ------------------------------------------------------------------------

\* SystemState() and the locals of main before anything has run
InitState ==
    /\ mode = "SEARCH" /\ running = TRUE /\ paused = FALSE
    /\ track_confirm_count = 0 /\ lost_frame_count = 0
    /\ pattern_active = FALSE /\ laser_active = FALSE
    /\ pattern_elapsed = PATTERN_RESTART_DEBOUNCE
    /\ motor_elapsed = MOTOR_CMD_INTERVAL
    /\ search_z = SEARCH_CONFIG.start_z
    /\ search_dir = SEARCH_CONFIG.initial_direction
    /\ frames_without_target = 0
    /\ ws_open = TRUE
    /\ det = "None" /\ aimed = NoAim /\ exc = "none"
    /\ sent = << >> /\ trans = "none" /\ branch = "init"
    /\ bird_run = 0 /\ lost_run = 0 /\ human_hold = FALSE
    /\ grid_running = FALSE /\ preempted = FALSE /\ failed = "none"
    /\ mc = NewMotionController /\ rpc = NewClient /\ comp = NewComponents

\* The state after initialisation, at the first test of `while state.running`
InitLoop ==
    /\ pc = "loop" /\ init_log = << "result", "result" >> /\ laser_controller = TRUE
    /\ InitState

\* The loop-local record an iteration starts from
Start(budget, laser_ok) ==
    [mode |-> mode, running |-> running, paused |-> paused,
     track_confirm_count |-> track_confirm_count,
     lost_frame_count |-> lost_frame_count,
     pattern_active |-> pattern_active, laser_active |-> laser_active,
     pattern_elapsed |-> pattern_elapsed,
     motor_elapsed |-> motor_elapsed,
     search_z |-> search_z, search_dir |-> search_dir,
     frames_without_target |-> frames_without_target,
     ws_open |-> ws_open, off_failed |-> off_failed,
     exc |-> "none", sent |-> << >>, trans |-> "none", branch |-> "top",
     aimed |-> NoAim, failed |-> "none",
     skip |-> FALSE, budget |-> budget, laser_ok |-> laser_ok]

\* Half a second of wall time passes in the sleeps of the loop (no frame
\* yet, paused, frame-rate limiting); saturated timers no longer change
Sleep ==
    /\ pc = "loop" /\ running
    /\ pattern_elapsed < PATTERN_RESTART_DEBOUNCE \/ motor_elapsed < MOTOR_CMD_INTERVAL
    /\ pattern_elapsed' = Min(pattern_elapsed + 1, PATTERN_RESTART_DEBOUNCE)
    /\ motor_elapsed' = Min(motor_elapsed + 1, MOTOR_CMD_INTERVAL)
    /\ sent' = << >> /\ trans' = "none" /\ branch' = "sleep" /\ aimed' = NoAim
    /\ UNCHANGED << pc, mode, running, paused, track_confirm_count, lost_frame_count,
                    pattern_active, laser_active, search_z, search_dir,
                    frames_without_target, cfg, ws_open, off_failed, det, exc,
                    bird_run, lost_run, human_hold, grid_running, preempted, failed,
                    loop_fixed >>

\* What an iteration saw, as the loop classifies it
Seen(d) ==
    IF detected_class(d) = "person" THEN "person"
    ELSE IF ValidBird(d) THEN "bird" ELSE "None"

\* The transport drops that can make a difference to an iteration whose
\* undisturbed run is ok: before one of the sends it attempts, or not at all
Budgets(ok) ==
    {b \in 0..MaxBudget : b = MaxBudget \/ b < Len(SelectSeq(ok.sent, IsGcode))}

\* The laser endpoint outcomes that can make a difference: a failure only
\* when the iteration calls turn_off
Outcomes(ok, LaserOutcomes) ==
    {o \in LaserOutcomes : o \/ \E i \in 1..Len(ok.sent) : ok.sent[i] = "LASER_OFF"}

\* The keys the loop reacts to in its current state
LiveKeys == {k \in Keys : ~(k = "p" /\ paused) /\ ~(k = "r" /\ ~paused)}

\* The state an iteration that ended in s leaves behind
Commit(s, d) ==
    /\ pc' = IF s.exc # "none" \/ ~s.running THEN "cleanup" ELSE "loop"
    /\ mode' = s.mode /\ running' = s.running /\ paused' = s.paused
    /\ track_confirm_count' = s.track_confirm_count
    /\ lost_frame_count' = s.lost_frame_count
    /\ pattern_active' = s.pattern_active
    /\ laser_active' = s.laser_active
    /\ pattern_elapsed' = s.pattern_elapsed
    /\ motor_elapsed' = s.motor_elapsed
    /\ search_z' = s.search_z /\ search_dir' = s.search_dir
    /\ frames_without_target' = s.frames_without_target
    /\ ws_open' = s.ws_open
    /\ off_failed' = s.off_failed
    /\ det' = Seen(d) /\ aimed' = s.aimed /\ exc' = s.exc /\ failed' = s.failed
    /\ sent' = s.sent /\ trans' = s.trans /\ branch' = s.branch
    /\ bird_run' = IF ValidBird(d) /\ s.branch = "search"
                   THEN Min(bird_run + 1, TRACK_CONFIRM_FRAMES) ELSE 0
    /\ lost_run' = IF ~ValidBird(d) /\ s.branch = "track"
                   THEN Min(lost_run + 1, LOST_FRAMES_TO_EXIT) ELSE 0
    /\ human_hold' = IF detected_class(d) = "person" THEN TRUE
                     ELSE IF s.exc = "none" /\ ~s.skip THEN FALSE ELSE human_hold
    /\ grid_running' = GridAfter(grid_running, s.sent)
    /\ preempted' = (preempted \/ (s.trans = "human" /\ s.sent # << >>
                                               /\ Head(s.sent) = "GRID_STOP"))
    /\ UNCHANGED << cfg, loop_fixed >>

\* The iteration on detection d and key k, for each way it can be disturbed
Disturbed(ok, d, k, LaserOutcomes) ==
    \E budget \in Budgets(ok), laser_ok \in Outcomes(ok, LaserOutcomes) :
        IF budget = MaxBudget /\ laser_ok THEN Commit(ok, d)
        ELSE Commit(Body(Start(budget, laser_ok), d, k), d)

\* One iteration of the main loop on a frame
Tick(LaserOutcomes) ==
    /\ pc = "loop" /\ running
    /\ \E d \in Detections, k \in LiveKeys :
           Disturbed(Body(Start(MaxBudget, TRUE), d, k), d, k, LaserOutcomes)

\* Ctrl+C between two iterations
Interrupt ==
    /\ pc = "loop" /\ running
    /\ pc' = "cleanup" /\ exc' = "KeyboardInterrupt"
    /\ sent' = << >> /\ trans' = "none" /\ branch' = "interrupt" /\ aimed' = NoAim
    /\ UNCHANGED << mode, running, paused, track_confirm_count, lost_frame_count,
                    pattern_active, laser_active, pattern_elapsed, motor_elapsed,
                    search_z, search_dir, frames_without_target, cfg, ws_open,
                    off_failed, det, bird_run, lost_run, human_hold, grid_running,
                    preempted, failed, loop_fixed >>

\* (the variant lets the exception of the pattern stop leave the block)
CleanupTail_Uncaught(s) ==
    /\ sent' = IF s.exc # "none" THEN s.sent
               ELSE Append((IF laser_controller THEN turn_off(s) ELSE s).sent, "WS_CLOSE")
    /\ off_failed' = IF laser_controller /\ s.exc = "none" THEN ~s.laser_ok ELSE off_failed
    /\ grid_running' = GridAfter(grid_running, s.sent)

\* The laser call and the close of the finally block
\* (turn_off only `if laser_controller is not None`)
CleanupTail(s) ==
    /\ sent' = Append((IF laser_controller THEN turn_off([s EXCEPT !.exc = "none"])
                                          ELSE s).sent, "WS_CLOSE")
    /\ off_failed' = IF laser_controller THEN ~s.laser_ok ELSE off_failed
    /\ grid_running' = GridAfter(grid_running, s.sent)

\* The finally block: stop the pattern, laser off, close the transport
Cleanup(LaserOutcomes) ==
    /\ pc = "cleanup"
    /\ \E budget \in 0..1, laser_ok \in LaserOutcomes :
         /\ budget = 1 \/ (pattern_active /\ ws_open)
         /\ IF pattern_active
            THEN CleanupTail(stop_pattern(Start(budget, laser_ok)))
            ELSE CleanupTail(Start(budget, laser_ok))
    /\ ws_open' = FALSE
    /\ pc' = "done" /\ branch' = "cleanup" /\ trans' = "none" /\ aimed' = NoAim
    /\ UNCHANGED << mode, running, paused, track_confirm_count, lost_frame_count,
                    pattern_active, laser_active, pattern_elapsed, motor_elapsed,
                    search_z, search_dir, frames_without_target, cfg,
                    det, exc, bird_run, lost_run, human_hold, preempted, failed,
                    loop_fixed >>

\* How MoonrakerWSClient.call can end: a frame with the request's id came
\* back (carrying "result" or "error"), the wait timed out, or the socket
\* was or went away
CallOutcomes == {"result", "error", "TimeoutError", "RuntimeError"}

\* A blocking call of initialisation whose return value main does not read
BlockingCall(next_pc, gcode, o) ==
    /\ pc' = IF o \in {"result", "error"} THEN next_pc ELSE "cleanup"
    /\ init_log' = IF o \in {"result", "error"} THEN Append(init_log, o) ELSE init_log
    /\ exc' = IF o \in {"result", "error"} THEN "none" ELSE o
    /\ ws_open' = (o # "RuntimeError")
    /\ sent' = IF o = "RuntimeError" THEN << >> ELSE << gcode >>
    /\ failed' = IF o \in {"result", "error"} THEN "none" ELSE gcode
    /\ branch' = "init"
    /\ UNCHANGED << mode, running, paused, track_confirm_count, lost_frame_count,
                    pattern_active, laser_active, pattern_elapsed, motor_elapsed,
                    search_z, search_dir, frames_without_target, cfg, off_failed,
                    det, aimed, trans, bird_run, lost_run, human_hold, grid_running,
                    preempted, laser_controller, mc, rpc, comp >>

\* STEP 3, first half: home(ws_client, timeout=30.0)
InitHome == pc = "home" /\ \E o \in CallOutcomes : BlockingCall("neutral", "G28", o)

\* STEP 3, second half: the absolute move to the neutral position
InitNeutral ==
    pc = "neutral" /\ \E o \in CallOutcomes : BlockingCall("prepare", "MOVE_NEUTRAL", o)

\* STEPS 4 to 9: the laser controller is made and turned off; the operator
\* picks or makes a calibration, or leaves
InitPrepare ==
    /\ pc = "prepare"
    /\ laser_controller' = TRUE
    /\ sent' = << "LASER_OFF" >> /\ off_failed' = FALSE
    /\ \E calibrated \in BOOLEAN : pc' = IF calibrated THEN "loop" ELSE "cleanup"
    /\ UNCHANGED << mode, running, paused, track_confirm_count, lost_frame_count,
                    pattern_active, laser_active, pattern_elapsed, motor_elapsed,
                    search_z, search_dir, frames_without_target, cfg, ws_open,
                    det, aimed, exc, trans, branch, bird_run, lost_run, human_hold,
                    grid_running, preempted, failed, init_log, mc, rpc, comp >>

\* SystemMain.py as written: the tracker is built with TRACKING_CONFIG.
\* The laser endpoint answers every request; the transport may drop.
Init == InitLoop /\ cfg = TRACKING_CONFIG /\ off_failed = FALSE

Next == Sleep \/ Tick({TRUE}) \/ Interrupt \/ Cleanup({TRUE})

Spec == Init /\ [][Next]_vars

\* The same loop with a laser endpoint that may fail any request of the
\* loop and of the cleanup
NextLaserFaults == Sleep \/ Tick(BOOLEAN) \/ Interrupt \/ Cleanup(BOOLEAN)

SpecLaserFaults == Init /\ [][NextLaserFaults]_vars

\* main from the connected transport on: initialisation, loop, cleanup
InitStartup ==
    /\ pc = "home" /\ init_log = << >> /\ laser_controller = FALSE
    /\ InitState /\ cfg = TRACKING_CONFIG /\ off_failed = FALSE

NextStartup ==
    \/ InitHome \/ InitNeutral \/ InitPrepare
    \/ Sleep \/ Tick({TRUE}) \/ Interrupt \/ Cleanup({TRUE})

SpecStartup == InitStartup /\ [][NextStartup]_vars

\* The same loop over a tracker built with any of the configurations
InitAnyConfig == InitLoop /\ cfg \in TrackerConfigs /\ off_failed = FALSE

SpecAnyConfig == InitAnyConfig /\ [][Next]_vars

\* ------------------------------------------------------------------------
\* The motion controller under any sequence of calls
\* ------------------------------------------------------------------------

SetIntent ==
    /\ \E x \in XArgs, y \in YArgs, z \in ZArgs, angle \in AngleArgs :
           mc' = set_intent(mc, x, y, z, angle)
    /\ UNCHANGED << main_vars, rpc, comp >>

Update ==
    /\ \E due \in BOOLEAN, budget \in 0..2 : mc' = update(mc, due, budget)
    /\ UNCHANGED << main_vars, rpc, comp >>

MoveBlocking ==
    /\ \E ok \in BOOLEAN : mc' = move_blocking(mc, ok)
    /\ UNCHANGED << main_vars, rpc, comp >>

MoveZRelativeBlocking ==
    /\ \E z_delta \in ZDeltaArgs, o \in CallOutcomes, on_wire \in BOOLEAN :
           /\ on_wire \/ o = "RuntimeError"
           /\ Abs(mc.dz_sum + z_delta) <= MaxDrift
           /\ mc' = move_z_relative_blocking(mc, z_delta, o, on_wire)
    /\ UNCHANGED << main_vars, rpc, comp >>

NextMotion ==
    \/ SetIntent \/ Update
    \/ MoveBlocking \/ MoveZRelativeBlocking

SpecMotion == Init /\ [][NextMotion]_vars

\* ------------------------------------------------------------------------
\* The client under concurrent calls, frames from the server, and a close
\* ------------------------------------------------------------------------

Call ==
    /\ \E c \in Callers :
         \/ rpc.caller[c].pc \in {"idle", "done"} /\ rpc' = CallEnter(rpc, c)
         \/ rpc.caller[c].pc = "allocate" /\ rpc.next_id <= MaxRequests
                                          /\ rpc' = CallAllocate(rpc, c)
         \/ rpc.caller[c].pc = "register" /\ rpc' = CallRegister(rpc, c)
         \/ rpc.caller[c].pc = "send"
               /\ \E carried \in BOOLEAN : rpc' = CallSend(rpc, c, carried)
         \/ rpc.caller[c].pc = "wait" /\ rpc.waiter[rpc.caller[c].id].set
                                      /\ rpc' = CallWake(rpc, c)
         \/ rpc.caller[c].pc = "wait" /\ ~rpc.waiter[rpc.caller[c].id].set
                                      /\ rpc' = CallExpire(rpc, c)
         \/ rpc.caller[c].pc = "expired" /\ rpc' = CallTimeout(rpc, c)
    /\ UNCHANGED << main_vars, mc, comp >>

RxLoop ==
    /\ \/ rpc.rx = "recv" /\ rpc.sock = "open" /\ \E k \in Ids : rpc' = RxFrame(rpc, k)
       \/ rpc.rx = "finish" /\ rpc' = RxFinish(rpc)
       \/ rpc.rx = "recv"
            /\ \E cause \in {"stopped", "closed", "error"} :
                  /\ cause = "stopped" => rpc.stop_event
                  /\ cause = "error" => rpc.sock = "open"
                  /\ rpc' = RxBreak(rpc, cause)
       \/ rpc.rx = "failing" /\ rpc' = RxFailPending(rpc)
       \/ rpc.rx = "clearing" /\ rpc' = RxClear(rpc)
    /\ UNCHANGED << main_vars, mc, comp >>

Close ==
    /\ \/ rpc.closer = "idle" /\ rpc' = CloseBegin(rpc)
       \/ rpc.closer = "fail" /\ rpc' = CloseFailPending(rpc)
    /\ UNCHANGED << main_vars, mc, comp >>

NextClient == Call \/ RxLoop \/ Close

SpecClient == Init /\ [][NextClient]_vars

\* The reader reads a notification frame
Notify ==
    /\ rpc.rx = "recv" /\ rpc.sock = "open"
    /\ \E registered, raises \in BOOLEAN : rpc' = RxNotify(rpc, registered, raises)
    /\ UNCHANGED << main_vars, mc, comp >>

NextNotify == Call \/ RxLoop \/ Close \/ Notify

\* The client with notifications among the frames
SpecNotify == Init /\ [][NextNotify]_vars

\* call(), with the steps under _pending_lock waiting for the lock
CallStepwise ==
    /\ \E c \in Callers :
         \/ rpc.caller[c].pc \in {"idle", "done"} /\ rpc' = CallEnter(rpc, c)
         \/ rpc.caller[c].pc = "allocate" /\ rpc.next_id <= MaxRequests
                                          /\ ~PendingLockHeld(rpc)
                                          /\ rpc' = CallAllocate(rpc, c)
         \/ rpc.caller[c].pc = "register" /\ ~PendingLockHeld(rpc)
                                          /\ rpc' = CallRegister(rpc, c)
         \/ rpc.caller[c].pc = "send"
               /\ \E carried \in BOOLEAN :
                     /\ (rpc.ws /\ rpc.sock = "open" /\ carried) \/ ~PendingLockHeld(rpc)
                     /\ rpc' = CallSend(rpc, c, carried)
         \/ rpc.caller[c].pc = "wait" /\ rpc.waiter[rpc.caller[c].id].set
                                      /\ rpc' = CallWake(rpc, c)
         \/ rpc.caller[c].pc = "wait" /\ ~rpc.waiter[rpc.caller[c].id].set
                                      /\ rpc' = CallExpire(rpc, c)
         \/ rpc.caller[c].pc = "expired" /\ ~PendingLockHeld(rpc)
                                         /\ rpc' = CallTimeout(rpc, c)
    /\ UNCHANGED << main_vars, mc, comp >>

\* _rx_loop, with the loop over the table and the clear() as two steps
RxLoopStepwise ==
    /\ \/ rpc.rx = "recv" /\ rpc.sock = "open" /\ ~PendingLockHeld(rpc)
            /\ \E k \in Ids : rpc' = RxFrame(rpc, k)
       \/ rpc.rx = "finish" /\ rpc' = RxFinish(rpc)
       \/ rpc.rx = "recv"
            /\ \E cause \in {"stopped", "closed", "error"} :
                  /\ cause = "stopped" => rpc.stop_event
                  /\ cause = "error" => rpc.sock = "open"
                  /\ rpc' = RxBreak(rpc, cause)
       \/ rpc.rx = "failing" /\ ~PendingLockHeld(rpc) /\ rpc' = RxFinishPending(rpc)
       \/ rpc.rx = "emptying" /\ rpc' = RxClearPending(rpc)
       \/ rpc.rx = "clearing" /\ rpc' = RxClear(rpc)
    /\ UNCHANGED << main_vars, mc, comp >>

\* close(), with the loop over the table and the clear() as two steps
CloseStepwise ==
    /\ \/ rpc.closer = "idle" /\ rpc' = CloseBegin(rpc)
       \/ rpc.closer = "fail" /\ ~PendingLockHeld(rpc) /\ rpc' = CloseFinishPending(rpc)
       \/ rpc.closer = "emptying" /\ rpc' = CloseClearPending(rpc)
    /\ UNCHANGED << main_vars, mc, comp >>

NextCalls == CallStepwise \/ RxLoopStepwise \/ CloseStepwise

\* The client with every statement that wakes a caller a step of its own
SpecCalls == Init /\ [][NextCalls]_vars

\* A client that was constructed and never connected
Construct ==
    /\ rpc = NewClient /\ rpc' = Constructed
    /\ UNCHANGED << main_vars, mc, comp >>

\* close() is called on a client that close() has returned from
CloseAgain ==
    /\ rpc.closer = "closed" /\ rpc' = CloseBegin(rpc)
    /\ UNCHANGED << main_vars, mc, comp >>

NextReclose == Construct \/ Call \/ RxLoop \/ Close \/ CloseAgain

\* The client, connected or not, closed any number of times
SpecReclose == Init /\ [][NextReclose]_vars

\* ------------------------------------------------------------------------
\* The vision worker against a reader of the latest detection
\* ------------------------------------------------------------------------

VisionWorker ==
    /\ \/ /\ comp.vision.wpc = 0 /\ comp.vision.lock = "free"
          /\ comp.vision.writes < MaxWrites
          /\ \E d \in {Found, NotFound} :
                comp' = [comp EXCEPT !.vision = WorkerLock(@, d)]
       \/ /\ comp.vision.wpc \in 1..Len(WriteOrder)
          /\ comp' = [comp EXCEPT !.vision = WorkerAssign(@)]
       \/ /\ comp.vision.wpc = Len(WriteOrder) + 1
          /\ comp' = [comp EXCEPT !.vision = WorkerUnlock(@)]
    /\ UNCHANGED << main_vars, mc, rpc >>

GetLatestDetection ==
    /\ \/ /\ comp.vision.reader \in {"idle", "returned"} /\ comp.vision.lock = "free"
          /\ comp' = [comp EXCEPT !.vision = ReadCopy(@)]
       \/ /\ comp.vision.reader = "copied"
          /\ comp' = [comp EXCEPT !.vision = ReadCheck(@)]
    /\ UNCHANGED << main_vars, mc, rpc >>

\* A quarter of a second passes
VisionClock ==
    /\ comp.vision.now < MaxClock
    /\ comp' = [comp EXCEPT !.vision.now = @ + 1]
    /\ UNCHANGED << main_vars, mc, rpc >>

NextVision == VisionWorker \/ GetLatestDetection \/ VisionClock

SpecVision == Init /\ [][NextVision]_vars

\* ------------------------------------------------------------------------
\* The search controller under updates at any pace, and resets
\* ------------------------------------------------------------------------

\* The times between two updates: none, a frame, the cap, a stall
SearchElapsed == {0, 3, SEARCH_MAX_DT, SEARCH_MAX_DT + 15}

SearchControllerUpdate ==
    /\ \E dt \in SearchElapsed : comp' = [comp EXCEPT !.search = search_update(@, dt)]
    /\ UNCHANGED << main_vars, mc, rpc >>

SearchControllerReset ==
    /\ comp' = [comp EXCEPT !.search = search_reset(@)]
    /\ UNCHANGED << main_vars, mc, rpc >>

NextSearch == SearchControllerUpdate \/ SearchControllerReset

SpecSearch == Init /\ [][NextSearch]_vars

\* ------------------------------------------------------------------------
\* The tracking controller on any detection, under any configuration
\* ------------------------------------------------------------------------

\* A tracker whose gain reaches the maximum step within the frame
HIGH_GAIN_TRACKING_CONFIG == [frame_width |-> CAMERA_WIDTH, deadzone_px |-> 50,
                    kp |-> 100, max_step_mm |-> 15000, min_step_mm |-> 500,
                    confidence_threshold |-> 25]

\* The columns a detection is centred on: the centre of the frame, both
\* sides of the deadzones, further out, and the edges of the frame
TrackerColumns ==
    {CAMERA_WIDTH \div 2 + e :
        e \in {0 - 540, 0 - 200, 0 - 51, 0 - 50, 0 - 49, 0 - 30, 0 - 29, 0,
               24, 25, 29, 30, 49, 50, 51, 100, 200, 539}}

\* tracker = TrackingController(config)
TrackingControllerNew ==
    /\ \E c \in TrackerConfigs \cup {HIGH_GAIN_TRACKING_CONFIG} :
          comp' = [comp EXCEPT !.tracker = [NewTracker EXCEPT !.config = c]]
    /\ UNCHANGED << main_vars, mc, rpc >>

\* tracker.update(bbox_center, confidence)
TrackingControllerUpdate ==
    /\ comp.tracker.frames <= TARGET_LOST_THRESHOLD
    /\ \E has_center \in BOOLEAN, cx \in TrackerColumns, conf \in {10, 30, 90} :
          comp' = [comp EXCEPT !.tracker =
                     [config |-> @.config, called |-> TRUE,
                      has_center |-> has_center, cx |-> cx, conf |-> conf,
                      result |-> TrackerUpdate(@.config, @.frames, has_center, cx, conf),
                      frames |-> TrackerUpdate(@.config, @.frames, has_center, cx, conf).frames,
                      misses |-> IF ~has_center \/ conf < @.config.confidence_threshold
                                 THEN @.misses + 1 ELSE 0]]
    /\ UNCHANGED << main_vars, mc, rpc >>

\* tracker.reset()
TrackingControllerReset ==
    /\ comp' = [comp EXCEPT !.tracker.frames = 0, !.tracker.misses = 0]
    /\ UNCHANGED << main_vars, mc, rpc >>

NextTracker == TrackingControllerNew \/ TrackingControllerUpdate \/ TrackingControllerReset

SpecTracker == Init /\ [][NextTracker]_vars

\* ------------------------------------------------------------------------
\* The distance model under any calibration and any query
\* ------------------------------------------------------------------------

CalRows == {100, 200, 300}
CalDistances == {100, 200, 300}
CalPoint == [y : CalRows, d : CalDistances]

\* The calibrations the model is given: up to MaxPoints points on
\* different rows, in any order
Calibrations ==
    {c \in UNION {[1..n -> CalPoint] : n \in 0..MaxPoints} :
        \A i, j \in 1..Len(c) : i # j => c[i].y # c[j].y}

RowProbes == {50, 100, 200, 250, 350}
DistanceProbes == {50, 100, 200, 250, 350}

LoadModel ==
    /\ \E c \in Calibrations :
          comp' = [comp EXCEPT !.distance =
                     IF LoadRaises(c)
                     THEN [@ EXCEPT !.op = "load_model", !.arg = c, !.error = "ValueError"]
                     ELSE [model |-> load_model(c), source |-> c, op |-> "load_model",
                           arg |-> c, result |-> 0, error |-> "none"]]
    /\ UNCHANGED << main_vars, mc, rpc >>

GetDistance ==
    /\ \E y \in RowProbes :
          comp' = [comp EXCEPT !.distance =
                     IF ~@.model.loaded
                     THEN [@ EXCEPT !.op = "get_distance", !.arg = << y >>,
                                    !.error = "RuntimeError"]
                     ELSE [@ EXCEPT !.op = "get_distance", !.arg = << y >>,
                                    !.error = "none",
                                    !.result = model_get_distance(comp.distance.model, y)]]
    /\ UNCHANGED << main_vars, mc, rpc >>

GetY ==
    /\ \E d \in DistanceProbes :
          comp' = [comp EXCEPT !.distance =
                     IF ~@.model.loaded
                     THEN [@ EXCEPT !.op = "get_y", !.arg = << d >>,
                                    !.error = "RuntimeError"]
                     ELSE [@ EXCEPT !.op = "get_y", !.arg = << d >>,
                                    !.error = "none",
                                    !.result = get_y(comp.distance.model, d)]]
    /\ UNCHANGED << main_vars, mc, rpc >>

NextDistance == LoadModel \/ GetDistance \/ GetY

SpecDistance == Init /\ [][NextDistance]_vars

\* ------------------------------------------------------------------------
\* The aim transform on any finite target
\* ------------------------------------------------------------------------

FloatExponents == {-538, -537, -1, 0, 1, 511, 512}

\* 0.0 and the finite floats +-2^e
Floats ==
    {[sign |-> 0, exp |-> 0]} \cup [sign : {-1, 1}, exp : FloatExponents]

GroundHit ==
    /\ \E x_m, z_m \in Floats :
          comp' = [comp EXCEPT !.aim =
                     [called |-> TRUE, x_m |-> x_m, z_m |-> z_m,
                      outcome |-> get_motor_deltas_for_ground_hit(x_m, z_m)]]
    /\ UNCHANGED << main_vars, mc, rpc >>

NextAim == GroundHit

SpecAim == Init /\ [][NextAim]_vars

\* ------------------------------------------------------------------------
\* A calibration session under any sequence of clicks and keys
\* ------------------------------------------------------------------------

\* The target is moved down the frame from click to click
SessionRow(k) == 100 * k

\* The distance entered for click k: the next of a rising series, a
\* repeated one, or (refused by the live UI) zero
ClickDistances(k) == {10 * k, 30, 0}

SessionOpen ==
    /\ comp.session.ui \in {"none", "done"}
    /\ \E kind \in {"live", "video"} :
          comp' = [comp EXCEPT !.session = session_open(kind)]
    /\ UNCHANGED << main_vars, mc, rpc >>

SessionClick ==
    /\ comp.session.ui \in {"live", "video"}
    /\ Len(comp.session.points) < MaxClicks
    /\ \E d \in ClickDistances(Len(comp.session.points) + 1) :
          /\ comp.session.ui = "video" => d > 0
          /\ comp' = [comp EXCEPT !.session =
                        session_click(@, SessionRow(Len(@.points) + 1), d)]
    /\ UNCHANGED << main_vars, mc, rpc >>

SessionUndo ==
    /\ comp.session.ui \in {"live", "video"}
    /\ comp' = [comp EXCEPT !.session = session_undo(@)]
    /\ UNCHANGED << main_vars, mc, rpc >>

SessionSave ==
    /\ comp.session.ui \in {"live", "video"}
    /\ \E written \in BOOLEAN :
          comp' = [comp EXCEPT !.session = session_save(@, written)]
    /\ UNCHANGED << main_vars, mc, rpc >>

SessionQuit ==
    /\ comp.session.ui \in {"live", "video"}
    /\ comp' = [comp EXCEPT !.session = session_quit(@)]
    /\ UNCHANGED << main_vars, mc, rpc >>

NextSession == SessionOpen \/ SessionClick \/ SessionUndo \/ SessionSave \/ SessionQuit

SpecSession == Init /\ [][NextSession]_vars

\* ------------------------------------------------------------------------
\* Concurrent update() calls
\* ------------------------------------------------------------------------

UpdateCheck ==
    /\ \E u \in Updaters :
          /\ comp.updater.pc[u] = "idle"
          /\ comp' = [comp EXCEPT !.updater = update_check(@, u)]
    /\ UNCHANGED << main_vars, mc, rpc >>

UpdateLocked ==
    /\ \E u \in Updaters :
          /\ comp.updater.pc[u] = "checked"
          /\ comp' = [comp EXCEPT !.updater = update_locked(@, u)]
    /\ UNCHANGED << main_vars, mc, rpc >>

\* set_intent(z=...) from the behaviour code
UpdaterSetIntent ==
    /\ \E z \in {0, 1} : comp' = [comp EXCEPT !.updater.intent_z = z]
    /\ UNCHANGED << main_vars, mc, rpc >>

\* A second passes; a call of update() takes no time
UpdaterClock ==
    /\ comp.updater.clock < MaxTime
    /\ \A u \in Updaters : comp.updater.pc[u] = "idle"
    /\ comp' = [comp EXCEPT !.updater.clock = @ + 1]
    /\ UNCHANGED << main_vars, mc, rpc >>

NextUpdater == UpdateCheck \/ UpdateLocked \/ UpdaterSetIntent \/ UpdaterClock

SpecUpdater == Init /\ [][NextUpdater]_vars

\* ------------------------------------------------------------------------
\* The queued vision worker against a reader
\* ------------------------------------------------------------------------

QueueWorkerRun ==
    /\ comp.vision_queue.runs < MaxRuns
    /\ \E d \in {Found, NotFound} :
          comp' = [comp EXCEPT !.vision_queue = vision_worker_run(@, d)]
    /\ UNCHANGED << main_vars, mc, rpc >>

QueueDetectHumanLive ==
    /\ comp.vision_queue.reads < MaxRuns
    /\ comp' = [comp EXCEPT !.vision_queue = queue_detect_human_live(@)]
    /\ UNCHANGED << main_vars, mc, rpc >>

NextVisionQueue == QueueWorkerRun \/ QueueDetectHumanLive

SpecVisionQueue == Init /\ [][NextVisionQueue]_vars

\* ------------------------------------------------------------------------
\* The Z sweep from any start within the bounds
\* ------------------------------------------------------------------------

SweepStart ==
    /\ \E z \in SEARCH_LOWER_Z..SEARCH_UPPER_Z, d \in {0 - 1, 1}, step \in {1, 3} :
          comp' = [comp EXCEPT !.sweep =
                     [current_z |-> z, direction |-> d, step |-> step, updates |-> 0]]
    /\ UNCHANGED << main_vars, mc, rpc >>

SweepUpdate ==
    /\ comp' = [comp EXCEPT !.sweep =
                  [compute_next_search_position(@)
                      EXCEPT !.updates = Min(comp.sweep.updates + 1, MaxUpdates)]]
    /\ UNCHANGED << main_vars, mc, rpc >>

NextSweep == SweepStart \/ SweepUpdate

SpecSweep == Init /\ [][NextSweep]_vars

\* ------------------------------------------------------------------------
\* start_square_pattern next to the IMU reader thread
\* ------------------------------------------------------------------------

\* The IMU thread reads a line and writes PLATFORM_ROLL_RAD
ImuUpdate ==
    /\ \E roll_deg \in ImuReadings :
          comp' = [comp EXCEPT !.pattern = esp32_reader_line(@, roll_deg)]
    /\ UNCHANGED << main_vars, mc, rpc >>

\* start_square_pattern is called
PatternStart ==
    /\ comp.pattern.pc = "idle"
    /\ comp' = [comp EXCEPT !.pattern.pc = "corners",
                            !.pattern.motor_positions = << >>]
    /\ UNCHANGED << main_vars, mc, rpc >>

\* solve_ground_hit for the next corner
PatternCorner ==
    /\ comp.pattern.pc = "corners"
    /\ comp' = [comp EXCEPT !.pattern = compute_motor_position(@)]
    /\ UNCHANGED << main_vars, mc, rpc >>

\* GRID_DEFINE and GRID_START are sent
PatternDefine ==
    /\ comp.pattern.pc = "define"
    /\ comp' = [comp EXCEPT !.pattern = send_define(@)]
    /\ UNCHANGED << main_vars, mc, rpc >>

NextPattern == ImuUpdate \/ PatternStart \/ PatternCorner \/ PatternDefine

SpecPattern == Init /\ [][NextPattern]_vars

\* ------------------------------------------------------------------------
\* Properties
\* ------------------------------------------------------------------------

Has(log, c) == \E i \in 1..Len(log) : log[i] = c

Count(log, c) == Cardinality({i \in 1..Len(log) : log[i] = c})

\* The step is one iteration of the loop on a frame
TickStep == pc = "loop" /\ branch' \notin {"sleep", "interrupt"}

\* The sends of the motion transport in the step's commands
Transport(log) == SelectSeq(log, IsGcode)

InRange(distance) == distance >= MIN_DISTANCE_FT /\ distance <= MAX_DISTANCE_FT

\* A tracker configuration that asks for a move whenever a valid bird is
\* outside the deadzone: its confidence gate is not above the loop's bird
\* gate, and the step at the deadzone edge is not below the minimum step
MovesOutsideDeadzone(c) ==
    /\ c.confidence_threshold <= CONF_THRESH_BIRD
    /\ Min(c.kp * c.deadzone_px, c.max_step_mm) >= c.min_step_mm

\* C1: every iteration that sees a person and runs to its end, whatever the
\* mode, flags, pause state and key, leaves pattern_active and laser_active
\* false, mode SEARCH and both counters 0, having sent GRID_STOP if the
\* pattern was active and called turn_off if the laser was on. (An iteration
\* a transport error aborts leaves the loop, and the cleanup calls turn_off.)
C1_HumanOverride ==
    [][ /\ (TickStep /\ det' = "person" /\ exc' = "none") =>
              /\ ~pattern_active' /\ ~laser_active'
              /\ mode' = "SEARCH"
              /\ track_confirm_count' = 0 /\ lost_frame_count' = 0
              /\ pattern_active => Has(sent', "GRID_STOP")
              /\ laser_active => Has(sent', "LASER_OFF")
        /\ (TickStep /\ exc' # "none") => pc' = "cleanup"
        /\ pc' = "done" => Has(sent', "LASER_OFF")
      ]_vars

\* C1 witness: a person seen while deterring in TRACK; the iteration stopped
\* the pattern, turned the laser off and forced SEARCH
C1_Witness ==
    /\ pc = "loop" /\ det = "person" /\ trans = "human"
    /\ Has(sent, "GRID_STOP") /\ Has(sent, "LASER_OFF")
    /\ mode = "SEARCH" /\ ~laser_active /\ ~pattern_active

\* C2: turn_on is never called in an iteration that sees a person, nor in
\* an iteration that follows one before some later iteration without a
\* person has run through the state machine.
C2_NoLaserOnAfterHuman ==
    [][ Has(sent', "LASER_ON") => (det' # "person" /\ ~human_hold) ]_vars

\* C2 witness: the laser is turned on again after a person had been seen
\* while deterring
C2_Witness ==
    /\ preempted /\ Has(sent, "LASER_ON") /\ laser_active
    /\ det = "bird" /\ ~human_hold /\ mode = "TRACK"

\* C3: at the end of every iteration that did not raise, laser_active
\* implies mode TRACK and pattern_active implies mode TRACK.
C3_FlagsOnlyInTrack ==
    exc # "RuntimeError" =>
        /\ laser_active => mode = "TRACK"
        /\ pattern_active => mode = "TRACK"

\* C3 witness: deterring, both flags set in TRACK
C3_Witness ==
    pc = "loop" /\ laser_active /\ pattern_active /\ mode = "TRACK" /\ ~paused

C6_StopBeforeDefineStart ==
    [][ \A i \in 1..Len(Transport(sent')) :
            /\ Transport(sent')[i] \in {"GRID_DEFINE", "GRID_START"} =>
                   ~GridAfter(grid_running, SubSeq(Transport(sent'), 1, i - 1))
            /\ Transport(sent')[i] = "GRID_START" =>
                   (i > 1 /\ Transport(sent')[i - 1] = "GRID_DEFINE")
      ]_vars

\* C6 witness: a second pattern was started after the first was stopped
C6_Witness ==
    /\ preempted /\ grid_running /\ pattern_active /\ pc = "loop"
    /\ Transport(sent) = << "MOVE_AIM", "GRID_DEFINE", "GRID_START" >>

\* C7: mode goes from SEARCH to TRACK only in an iteration that is the
\* TRACK_CONFIRM_FRAMES-th in a row to reach the SEARCH branch with a valid
\* bird; that iteration sent M400, reset the tracker and cleared the confirm
\* counter; any iteration of the SEARCH branch without a valid bird leaves
\* the confirm counter at 0.
C7_ConfirmedEntry ==
    [][ /\ (mode = "SEARCH" /\ mode' = "TRACK") =>
              /\ TickStep /\ det' = "bird"
              /\ bird_run' >= TRACK_CONFIRM_FRAMES
              /\ Has(sent', "M400")
              /\ frames_without_target' = 0
              /\ track_confirm_count' = 0
        /\ (TickStep /\ branch' = "search" /\ det' # "bird" /\ exc' = "none") =>
              track_confirm_count' = 0
      ]_vars

\* C7 witness: TRACK entered on the TRACK_CONFIRM_FRAMES-th valid bird in a
\* row, with M400 sent and the counters cleared
C7_Witness ==
    /\ trans = "confirm" /\ mode = "TRACK" /\ Has(sent, "M400")
    /\ bird_run = TRACK_CONFIRM_FRAMES /\ track_confirm_count = 0
    /\ frames_without_target = 0

\* C8 (as claimed): mode goes from TRACK to SEARCH on target loss only after
\* LOST_FRAMES_TO_EXIT iterations in a row without a valid bird; the pattern
\* is stopped, the laser turned off and the confirm counter reset.
C8_LostExitAfterNLost ==
    (trans = "lost" /\ exc = "none") =>
        /\ lost_run >= LOST_FRAMES_TO_EXIT
        /\ ~pattern_active /\ ~laser_active
        /\ track_confirm_count = 0 /\ mode = "SEARCH"

C10_OffRetried ==
    [][ (/\ off_failed /\ TickStep /\ exc' = "none"
         /\ \/ det' = "person"
            \/ mode = "TRACK" /\ mode' = "SEARCH"
            \/ ~paused /\ paused') =>
            Has(sent', "LASER_OFF")
      ]_vars

\* C11 (as claimed): an iteration that turned the laser on and then failed to
\* start the pattern drops to SEARCH, keeps running and calls turn_off.
C11_FailedStartDropsToSearch ==
    [][ (TickStep /\ Has(sent', "LASER_ON") /\ ~Has(sent', "GRID_START")) =>
            (mode' = "SEARCH" /\ pc' = "loop" /\ Has(sent', "LASER_OFF"))
      ]_vars

C13_ShutdownOrder ==
    pc = "done" =>
        \E i, j, k \in 1..Len(sent) :
            /\ i < j /\ j < k
            /\ sent[i] = "LASER_OFF"
            /\ sent[j] = "MOVE_NEUTRAL"
            /\ sent[k] = "WS_CLOSE"
            /\ \A h \in 1..Len(sent) : sent[h] = "GRID_STOP" => h < i

C14_LoopAfterHomedAndSeated ==
    pc = "loop" => init_log = << "result", "result" >>

\* The Z position the controller was told to go to: the last absolute Z
\* sent plus the relative steps sent since
ImpliedZ == mc.seed[1] + mc.dz_sum

WithinLimits(axis, v) == MOTION_LIMITS[axis][1] <= v /\ v <= MOTION_LIMITS[axis][2]

\* C16: whatever the calls, every absolute X/Y/Z target sent lies within
\* the limits of its axis, and the last absolute Z plus the relative Z
\* steps sent since lies within [z_min, z_max].
C16_AxisLimitsKept ==
    /\ \A i \in 1..Len(mc.out) :
          mc.out[i].cmd \in {"G0", "MOVE"} =>
             \A a \in Axes : mc.out[i].to[a] # None => WithinLimits(a, mc.out[i].to[a][1])
    /\ mc.seed # None => WithinLimits("z", ImpliedZ)

\* C17: whenever last_commanded_z is defined it equals the Z of the last
\* blocking absolute move plus the sum of the relative steps sent since.
C17_TrackedZIsSeedPlusSteps ==
    mc.last_commanded_z # None =>
        (mc.seed # None /\ mc.last_commanded_z[1] = ImpliedZ)

StrictlyIncreasing(s) == \A i, j \in 1..Len(s) : i < j => s[i] < s[j]

\* The step is the reader taking a frame with "id": k
FrameStep(k) == rpc' # rpc /\ rpc'.last = [op |-> "frame", who |-> "rx", id |-> k]

\* The step changes nothing a caller can see
NoWaiterTouched ==
    /\ rpc'.waiter = rpc.waiter /\ rpc'.pending = rpc.pending
    /\ rpc'.caller = rpc.caller /\ rpc'.rx = rpc.rx /\ rpc'.hold = rpc.hold

\* C18: however calls interleave, request ids are distinct and increase in
\* the order they are allocated; a response frame with id k completes only
\* the waiter registered under k and at most once; a frame whose id is
\* unknown or already removed touches no waiter.
C18_IdsAndResponsesMatched ==
    [][ /\ StrictlyIncreasing(rpc'.allocated)
        /\ \A c, d \in Callers :
              (c # d /\ rpc'.caller[c].id # 0) => rpc'.caller[c].id # rpc'.caller[d].id
        /\ \A k \in Ids :
              /\ rpc'.responses[k] <= 1
              /\ (FrameStep(k) /\ k \in rpc.pending) =>
                     /\ rpc'.hold = k /\ rpc'.pending = rpc.pending \ {k}
                     /\ rpc'.waiter = rpc.waiter /\ rpc'.caller = rpc.caller
              /\ (FrameStep(k) /\ k \notin rpc.pending) => NoWaiterTouched
              /\ (rpc.rx = "finish" /\ rpc'.rx = "recv" /\ rpc.hold = k) =>
                     /\ rpc'.waiter[k] = finish(TRUE, "none")
                     /\ \A j \in Ids \ {k} : rpc'.waiter[j] = rpc.waiter[j]
                     /\ rpc'.caller = rpc.caller
        /\ \A c \in Callers :
              (rpc.caller[c].pc = "wait" /\ rpc'.caller[c].result = "response") =>
                  rpc.responses[rpc.caller[c].id] = 1
      ]_vars

C18_Witness ==
    /\ rpc.last.op = "finish" /\ rpc.allocated = << 1, 2 >>
    /\ \E c, d \in Callers :
          /\ rpc.caller[c].pc = "wait" /\ rpc.caller[d].pc = "wait"
          /\ rpc.caller[c].id = rpc.last.id /\ rpc.caller[d].id # rpc.last.id
          /\ rpc.waiter[rpc.caller[c].id] = finish(TRUE, "none")
          /\ ~rpc.waiter[rpc.caller[d].id].set

\* close() has returned or the reader loop has ended
SocketClosed == rpc.closer = "closed" \/ rpc.rx = "dead"

\* C19: once the socket is closed, by close() or by the end of the reader
\* loop, no call is left to wait out its timeout: the waiter of every call
\* still waiting has been failed (or is in the hands of the reader, which
\* took it from the table before the close and completes it).
C19_ClosedFailsWaiters ==
    SocketClosed =>
        \A c \in Callers :
            (rpc.caller[c].pc = "wait" /\ rpc.hold # rpc.caller[c].id) =>
                rpc.waiter[rpc.caller[c].id].set

\* C20: a call that times out takes its waiter from the table and raises
\* TimeoutError; the transport stays as it was (open), the other calls and
\* waiters are untouched, and a frame that arrives later for its id is
\* dropped.
C20_TimeoutLeavesTransportOpen ==
    [][ /\ \A c \in Callers :
              (rpc.caller[c].pc = "expired" /\ rpc'.caller[c].pc = "done") =>
                  /\ rpc'.caller[c].result = "TimeoutError"
                  /\ rpc'.pending = rpc.pending \ {rpc.caller[c].id}
                  /\ rpc.caller[c].id \notin rpc'.pending
                  /\ is_connected(rpc') = is_connected(rpc)
                  /\ rpc'.ws = rpc.ws /\ rpc'.sock = rpc.sock /\ rpc'.rx = rpc.rx
                  /\ rpc'.next_id = rpc.next_id
                  /\ \A d \in Callers \ {c} : rpc'.caller[d] = rpc.caller[d]
                  /\ \A k \in Ids \ {rpc.caller[c].id} : rpc'.waiter[k] = rpc.waiter[k]
        /\ \A k \in Ids :
              (FrameStep(k) /\ rpc.waiter[k].error = "TimeoutError") => NoWaiterTouched
      ]_vars

C20_Witness ==
    /\ rpc.last.op = "frame" /\ rpc.last.id = 1
    /\ rpc.waiter[1].error = "TimeoutError" /\ is_connected(rpc)
    /\ \E c, d \in Callers :
          /\ rpc.caller[c].result = "TimeoutError" /\ rpc.caller[c].pc = "done"
          /\ rpc.caller[d].pc = "wait" /\ rpc.caller[d].id = 2
          /\ 2 \in rpc.pending

\* What is_connected() is computed from, and the socket
Connection(r) == << r.ws, r.rx_thread, r.stop_event, r.sock >>

OneWrite(s) == \A f, g \in Fields : s[f].w = s[g].w

\* C22: get_latest_detection returns a snapshot whose fields all come from
\* one write of the worker, never a mix of two; if that write is older
\* than the staleness threshold when it is checked, the snapshot has
\* has_target false, no centre and no bbox.
C22_SnapshotOfOneWrite ==
    comp.vision.reader = "returned" =>
        /\ OneWrite(comp.vision.state)
        /\ comp.vision.state.has_target.v =>
               (comp.vision.state.bbox_center.v = "xy" /\ comp.vision.state.bbox.v = "box")
        /\ (comp.vision.checked_at - comp.vision.state.timestamp.v > STALENESS_THRESHOLD_S) =>
               /\ ~comp.vision.state.has_target.v
               /\ comp.vision.state.bbox_center.v = "None"
               /\ comp.vision.state.bbox.v = "None"

\* A write that found a target was returned stale and cleared, while the
\* worker is in the middle of its next write
C22_Witness ==
    /\ comp.vision.reader = "returned"
    /\ comp.vision.copy.has_target.v /\ ~comp.vision.state.has_target.v
    /\ comp.vision.state.timestamp.w = 1
    /\ comp.vision.wpc = 3 /\ comp.vision.writes = 2

\* C23: after every update of the search controller its position lies
\* within [min, max], and the update produces a delta equal to the new
\* position minus the old one.
C23_SearchInRangeWithDelta ==
    comp.search.updates > 0 =>
        /\ SEARCH_MIN_ANGLE <= comp.search.current_angle
        /\ comp.search.current_angle <= SEARCH_MAX_ANGLE
        /\ ResultGet(comp.search.result, "z_delta", 0) =
               comp.search.current_angle - comp.search.old_angle

\* The offset of the last detection from the centre of the frame
TrackerError == comp.tracker.cx - comp.tracker.config.frame_width \div 2

\* C24: update returns should_move false whenever the centre of the
\* detection is less than the deadzone away from the centre of the frame;
\* whenever it returns should_move true the step is kp * error clamped to
\* [-max_step, +max_step], at least min_step in size, with the sign of
\* the error.
C24_DeadzoneAndClampedStep ==
    comp.tracker.called =>
        /\ (comp.tracker.has_center /\ Abs(TrackerError) < comp.tracker.config.deadzone_px)
              => ~comp.tracker.result.should_move
        /\ comp.tracker.result.should_move =>
              /\ comp.tracker.has_center
              /\ comp.tracker.result.z_delta =
                    Max(0 - comp.tracker.config.max_step_mm,
                        Min(comp.tracker.config.max_step_mm,
                            comp.tracker.config.kp * TrackerError))
              /\ Abs(comp.tracker.result.z_delta) >= comp.tracker.config.min_step_mm
              /\ comp.tracker.result.z_delta * TrackerError > 0

\* A step to the left that the clamp cut to the maximum step
C24_Witness ==
    /\ comp.tracker.called /\ comp.tracker.result.should_move
    /\ comp.tracker.result.z_delta = 0 - comp.tracker.config.max_step_mm
    /\ comp.tracker.config.kp * TrackerError < 0 - comp.tracker.config.max_step_mm

\* The distances of a calibration, taken in row order, rise or fall strictly
StrictlyMonotone(c) ==
    \/ \A i \in 1..Len(c) - 1 : SortedBy(c, "y")[i].d < SortedBy(c, "y")[i + 1].d
    \/ \A i \in 1..Len(c) - 1 : SortedBy(c, "y")[i].d > SortedBy(c, "y")[i + 1].d

\* C25: load_model rejects a calibration with fewer than 2 points, or
\* whose distances in row order are not strictly monotone, with an error,
\* and installs no model from it.
C25_InvalidCalibrationRejected ==
    (comp.distance.op = "load_model"
        /\ (Len(comp.distance.arg) < 2 \/ ~StrictlyMonotone(comp.distance.arg)))
    => /\ comp.distance.error = "ValueError"
       /\ comp.distance.model # load_model(comp.distance.arg)

\* C26: for every loaded calibration and every row, get_distance lies
\* between the smallest and the largest calibrated distance, and it is
\* monotone in the row.
C26_DistanceClampedMonotone ==
    comp.distance.model.loaded =>
        /\ \A y \in RowProbes : \E i, j \in 1..Len(comp.distance.source) :
              /\ comp.distance.source[i].d <= model_get_distance(comp.distance.model, y)
              /\ model_get_distance(comp.distance.model, y) <= comp.distance.source[j].d
        /\ \/ \A y1, y2 \in RowProbes :
                 y1 < y2 => model_get_distance(comp.distance.model, y1)
                              <= model_get_distance(comp.distance.model, y2)
           \/ \A y1, y2 \in RowProbes :
                 y1 < y2 => model_get_distance(comp.distance.model, y1)
                              >= model_get_distance(comp.distance.model, y2)

\* C27: for every loaded calibration and every point (row, distance) of
\* it, get_y(get_distance(row)) is the row and get_distance(get_y(distance))
\* is the distance.
C27_RoundTripOnPoints ==
    comp.distance.model.loaded =>
        \A i \in 1..Len(comp.distance.source) :
            /\ get_y(comp.distance.model,
                     model_get_distance(comp.distance.model, comp.distance.source[i].y))
                 = comp.distance.source[i].y
            /\ model_get_distance(comp.distance.model,
                                  get_y(comp.distance.model, comp.distance.source[i].d))
                 = comp.distance.source[i].d

\* C28: the aim transform fails with the invalid-target error exactly
\* when z <= 0, and for a finite x and z > 0 it does not fail at all.
C28_AimFailsOnlyOnNonPositiveZ ==
    comp.aim.called =>
        /\ (comp.aim.outcome = "ValueError") <=> (comp.aim.z_m.sign <= 0)
        /\ comp.aim.z_m.sign > 0 => comp.aim.outcome = "returned"

\* C29: a calibration session is stored only when it holds at least 6
\* clicked points whose distances are strictly monotone; any other save
\* is refused and stores nothing.
C29_SavedOnlyIfSixMonotone ==
    comp.session.stored # << >> =>
        /\ Len(comp.session.stored[1]) >= 6
        /\ StrictlyMonotone(comp.session.stored[1])

\* C30: under any interleaving of concurrent update() calls, two sends
\* are never less than one send period apart.
C30_SendsOnePeriodApart ==
    (comp.updater.emitted # << >> /\ comp.updater.before # << >>)
    => comp.updater.emitted[1] - comp.updater.before[1] >= SEND_PERIOD_S

\* C31: a blocking move (move_blocking, move_z_relative_blocking) whose
\* transport call raises or times out leaves last_sent and
\* last_commanded_z exactly as they were before the call.
C31_BlockingTracksOnlyOnSuccess ==
    [][((MoveBlocking \/ MoveZRelativeBlocking) /\ mc'.raised)
          => (mc'.last_sent = mc.last_sent
                /\ mc'.last_commanded_z = mc.last_commanded_z)]_vars

\* The call that ends in mc' put a command for the axis on the wire
AxisSent(a) ==
    \E i \in 1..Len(mc'.out) :
        \/ mc'.out[i].cmd = "Move" /\ a = "z"
        \/ mc'.out[i].cmd = "MOVE" /\ mc'.out[i].to[a] # None

\* C32: update() changes last_sent and last_commanded_z only for the axes
\* whose command was sent; a failed X/Y send leaves last_sent of x and y
\* unchanged.
C32_UpdateTracksOnlySentAxes ==
    [][Update =>
          /\ \A a \in Axes : mc'.last_sent[a] # mc.last_sent[a] => AxisSent(a)
          /\ mc'.last_commanded_z # mc.last_commanded_z => AxisSent("z")]_vars

\* The last call was an update() that sent its commands without raising
UpdateEmitted ==
    /\ mc.out # << >> /\ ~mc.raised
    /\ \A i \in 1..Len(mc.out) : mc.out[i].cmd \in {"Move", "MOVE"}

\* C37: once update() has emitted for an intent, further update() calls
\* emit nothing while the intent is unchanged, also for an intent outside
\* the axis limits.
C37_UpdateIdempotent ==
    [][(UpdateEmitted /\ Update) => mc'.out = << >>]_vars

\* C33: a reader of the detection path never returns an older result once
\* a newer detector run has completed: what detect_human_live returned is
\* the result of the most recent run.
C33_NewestResultWins ==
    [][(comp'.vision_queue.reads = comp.vision_queue.reads + 1
          /\ comp'.vision_queue.got # << >>)
       => comp'.vision_queue.got[1].run = comp.vision_queue.runs]_vars

\* The step proposed by the next sweep update reaches or crosses a bound
SweepReachesBound ==
    \/ comp.sweep.direction > 0 /\ comp.sweep.current_z + comp.sweep.step >= SEARCH_UPPER_Z
    \/ comp.sweep.direction <= 0 /\ comp.sweep.current_z - comp.sweep.step <= SEARCH_LOWER_Z

\* C34: a sweep update flips the direction exactly when its proposed step
\* reaches or crosses a bound, and no bound value is produced by two
\* updates in a row.
C34_TriangleWave ==
    [][SweepUpdate =>
          /\ (comp'.sweep.direction # comp.sweep.direction) <=> SweepReachesBound
          /\ (comp.sweep.updates > 0
                 /\ comp.sweep.current_z \in {SEARCH_LOWER_Z, SEARCH_UPPER_Z})
              => comp'.sweep.current_z # comp.sweep.current_z]_vars

\* C35: is_target_lost() is true exactly when the number of consecutive
\* update() calls without a centre or below the confidence gate, counted
\* since the last valid detection or reset(), has reached the lost
\* threshold.
C35_LostIffThreshold ==
    /\ comp.tracker.frames = comp.tracker.misses
    /\ is_target_lost(comp.tracker) <=> comp.tracker.misses >= TARGET_LOST_THRESHOLD

\* The fifth miss in a row after a valid detection: the target is lost
C35_Witness ==
    /\ comp.tracker.called /\ is_target_lost(comp.tracker)
    /\ comp.tracker.misses = TARGET_LOST_THRESHOLD
    /\ comp.tracker.has_center /\ comp.tracker.conf < comp.tracker.config.confidence_threshold

\* C36: a notification handler that raises does not fail the transport:
\* the step leaves the reader in its loop and every waiter, the pending
\* table, every caller and the connection as they were; the reader leaves
\* its loop only by the break of the loop head, and a frame read after the
\* handler raised still takes its waiter from the table.
C36_HandlerErrorContained ==
    [][ /\ rpc'.last.op = "notify_raised" =>
              /\ rpc'.rx = "recv" /\ rpc.rx = "recv"
              /\ rpc'.waiter = rpc.waiter /\ rpc'.pending = rpc.pending
              /\ rpc'.caller = rpc.caller /\ rpc'.hold = rpc.hold
              /\ Connection(rpc') = Connection(rpc)
              /\ is_connected(rpc') = is_connected(rpc)
        /\ (rpc.rx \in {"recv", "finish"} /\ rpc'.rx \notin {"recv", "finish"}) =>
              rpc'.last.op = "break"
        /\ \A k \in Ids :
              (rpc.handler_raised > 0 /\ FrameStep(k) /\ k \in rpc.pending) =>
                  rpc'.hold = k /\ rpc'.rx = "finish"
      ]_vars

\* A response is delivered to a call made after a handler raised
C36_Witness ==
    /\ rpc.handler_raised > 0 /\ rpc.last.op = "wake"
    /\ \E c \in Callers :
          /\ rpc.caller[c].pc = "done" /\ rpc.caller[c].result = "response"
          /\ rpc.caller[c].id >= rpc.handler_raised
          /\ rpc.responses[rpc.caller[c].id] = 1

\* What call() ends with
CallOutcome == {"response", "TimeoutError", "RuntimeError"}

\* C39: a call() that has returned or raised did so with one outcome, a
\* response, TimeoutError or a transport error, and its id is no longer in
\* the pending table, however the reader thread and close() interleave.
C39_CallLeavesNoEntry ==
    \A c \in Callers :
        rpc.caller[c].pc = "done" =>
            /\ rpc.caller[c].result \in CallOutcome
            /\ rpc.caller[c].id \notin rpc.pending

\* C38: however main() is left once the laser controller exists (quit
\* key, Ctrl+C, an exception of the loop), the finally block has called
\* turn_off and then closed the transport, also when the pattern stop before
\* them raised or turn_off failed.
C38_CleanupAlwaysOffThenClose ==
    (pc = "done" /\ laser_controller) =>
        /\ Len(sent) >= 2
        /\ sent[Len(sent) - 1] = "LASER_OFF"
        /\ sent[Len(sent)] = "WS_CLOSE"
        /\ ~ws_open

\* main() was left on an exception with the pattern running, the pattern
\* stop of the cleanup raised and turn_off failed
C38_Witness ==
    /\ pc = "done" /\ laser_controller /\ exc # "none"
    /\ pattern_active /\ ~Has(sent, "GRID_STOP") /\ off_failed
    /\ sent = << "LASER_OFF", "WS_CLOSE" >>

\* C40: the four corners of one pattern definition are computed with one
\* value of the platform roll, also when the IMU reader thread writes
\* PLATFORM_ROLL_RAD while start_square_pattern runs.
C40_OneRollPerPattern ==
    \A i, j \in 1..Len(comp.pattern.defined) :
        comp.pattern.defined[i].roll = comp.pattern.defined[j].roll

====
